---- MODULE Spec2Model ----
(***************************************************************************)
(* The tool-calling loop of backend/app/services/agent_processor.py:       *)
(* the LangGraph workflow agent_node -> should_continue -> tool_node ->    *)
(* agent_node, run by AgentProcessor.process (synchronous) and by          *)
(* AgentProcessor.process_stream (streaming); and the functions the loop   *)
(* depends on: the tools of services/tools.py, the catalog filter of       *)
(* services/product_service.py and the vibe mapper of                      *)
(* services/vibe_mapper.py; and the follow-up flow of                      *)
(* services/chat_service.py and services/chat.py.                          *)
(***************************************************************************)
EXTENDS Integers, Sequences, FiniteSets, TLC

VARIABLES
    messages,           \* AgentState.messages: the conversation turns
    current_tool,       \* AgentState.current_tool: the pending tool call
    last_tool_outputs,  \* AgentState.last_tool_outputs: the invocation log
    error,              \* AgentState.error
    streaming,          \* AgentState.streaming: TRUE for process_stream
    llm_available,      \* AgentProcessor._llm is not None
    pc,                 \* next node of the graph, "END", or "returned"
    steps,              \* history: the node executions of this run, in order
    result,             \* what process() returned
    events,             \* what process_stream() has yielded so far
    runs,               \* the graph invocations in flight on one AgentProcessor
    call,               \* the arguments of a call of one of the pure functions
    ret                 \* <<>> before that call returns, <<value>> after

vars == <<messages, current_tool, last_tool_outputs, error, streaming,
          llm_available, pc, steps, result, events, runs, call, ret>>


(***************************************************************************)
(* Bounds and program constants                                            *)
(***************************************************************************)
MaxHistory == 2

MaxToolExecutions == 3

\* Python's None, and a dict key that is absent
None == "<None>"
NoKey == "<missing>"

(***************************************************************************)
(* Fixed texts of the source                                               *)
(***************************************************************************)
UnavailableText == "I'm currently unavailable. Please try again later."
EmptyAssistantText == "Let me help you with that."
FallbackText == "I'm not sure how to respond to that."
GenerationErrorText == "I encountered an error generating a response. Please try again."
RequestErrorText == "I encountered an error processing your request. Please try again."

(***************************************************************************)
(* Turns                                                                   *)
(***************************************************************************)
Turn(role, content, calls, name, id) ==
    [role |-> role, content |-> content, tool_calls |-> calls,
     name |-> name, tool_call_id |-> id]

PlainTurn(role, content) == Turn(role, content, <<>>, NoKey, NoKey)

\* The turns a caller may put in the history it passes to process() or
\* process_stream(): well-formed turns, a turn with an unknown role, and two
\* malformed dicts (content None, no "role" key).
HistoryTurns ==
    { PlainTurn("user", "hello"),
      PlainTurn("user", None),
      PlainTurn("assistant", ""),
      PlainTurn("system", "be brief"),
      PlainTurn("moderator", "note"),
      PlainTurn(NoKey, "stray") }

RECURSIVE SeqsUpTo(_, _)
SeqsUpTo(S, n) ==
    IF n = 0 THEN { <<>> }
    ELSE LET shorter == SeqsUpTo(S, n - 1)
         IN  shorter \cup { Append(h, t) : h \in { x \in shorter : Len(x) = n - 1 }, t \in S }

Histories == SeqsUpTo(HistoryTurns, MaxHistory)

(***************************************************************************)
(* The tool registry (ToolsManager.get_tools)                              *)
(***************************************************************************)
get_tools == { "find_apparels", "get_apparel_details" }

(***************************************************************************)
(* The LLM collaborator: what generate_content_async can do                *)
(***************************************************************************)
TextPart(t) == [kind |-> "text", text |-> t, name |-> NoKey, args |-> NoKey]
CallPart(n, a) == [kind |-> "function_call", text |-> "", name |-> n, args |-> a]
OtherPart == [kind |-> "other", text |-> "", name |-> NoKey, args |-> NoKey]

\* parts: candidates[0].content.parts (empty when there is no candidate, no
\* content or no part); text: the response's own text attribute, None when
\* it has none.
Response(parts) == [raises |-> FALSE, parts |-> parts, text |-> None]
LLMRaises == [raises |-> TRUE, parts |-> <<>>, text |-> None]

\* The responses of the k-th call of the run.
LLMResponses(k) ==
    LET reply == "reply " \o ToString(k)
    IN  { LLMRaises,
          Response(<<>>),
          Response(<<OtherPart>>),
          [Response(<<>>) EXCEPT !.text = reply],
          Response(<<TextPart(reply)>>),
          Response(<<CallPart("find_apparels", "{size: M}")>>),
          Response(<<TextPart(reply), CallPart("find_apparels", "{size: M}")>>),
          Response(<<CallPart("get_apparel_details", "{id: 7}"),
                     CallPart("find_apparels", "{}")>>),
          Response(<<CallPart("resize_image", "{}")>>),
          Response(<<TextPart(reply), CallPart("resize_image", "{}")>>) }

\* What invoking a resolved tool can do: return a payload or raise.
ToolRaises == "raise"
ToolBehaviours == { "{success: True, count: 2}", ToolRaises }

(***************************************************************************)
(* AgentState: the state the graph passes from node to node                *)
(***************************************************************************)
State(m, ct, outs, err) ==
    [messages |-> m, current_tool |-> ct, last_tool_outputs |-> outs, error |-> err]

\* current_tool = None
NoTool == [name |-> None, args |-> None, id |-> None, type |-> None]

\* Python truthiness of a string-or-None value
Truthy(v) == v # None /\ v # ""

(***************************************************************************)
(* agent_node: one REASON step                                             *)
(***************************************************************************)
\* The turns on which the conversion loop raises: msg["role"] of a dict
\* without that key (KeyError), msg["content"][:50] of a user turn whose
\* content is None (TypeError).
ConversionRaisesOn(m) ==
    m.role = NoKey \/ (m.role = "user" /\ m.content = None)

FirstRaising(msgs) ==
    LET bad == { i \in 1..Len(msgs) : ConversionRaisesOn(msgs[i]) }
    IN  IF bad = {} THEN Len(msgs) + 1
        ELSE CHOOSE i \in bad : \A j \in bad : i <= j

\* The loop rewrites, in place, the content of every assistant turn whose
\* content is empty; it stops at the first turn it raises on.
ConvertMessages(msgs) ==
    [i \in 1..Len(msgs) |->
        IF i < FirstRaising(msgs) /\ msgs[i].role = "assistant" /\ ~Truthy(msgs[i].content)
        THEN [msgs[i] EXCEPT !.content = EmptyAssistantText]
        ELSE msgs[i]]

ToolCall(name, args, n) ==
    [name |-> name, args |-> args, id |-> "tool_call_" \o ToString(n), type |-> "tool_call"]

\* The loop over candidate.content.parts: text parts are concatenated, each
\* function_call part becomes a tool call numbered in order of appearance.
RECURSIVE ParseParts(_, _, _)
ParseParts(parts, text, calls) ==
    IF parts = <<>> THEN [text |-> text, tool_calls |-> calls]
    ELSE LET p == Head(parts)
         IN  IF p.kind = "text" /\ p.text # ""
             THEN ParseParts(Tail(parts), text \o p.text, calls)
             ELSE IF p.kind = "function_call"
             THEN ParseParts(Tail(parts), text,
                             Append(calls, ToolCall(p.name, p.args, Len(calls) + 1)))
             ELSE ParseParts(Tail(parts), text, calls)

ParseResponse_without_fallback(resp) ==
    LET parsed == ParseParts(resp.parts, "", <<>>)
    IN  IF parsed.tool_calls = <<>> /\ Truthy(resp.text)
        THEN [parsed EXCEPT !.text = resp.text]
        ELSE parsed

\* Without tool calls the text is replaced by response.text when that is
\* non-empty; with neither text nor tool calls it is the fallback text.
ParseResponse(resp) ==
    LET parsed == ParseParts(resp.parts, "", <<>>)
        extracted == IF parsed.tool_calls = <<>> /\ Truthy(resp.text)
                     THEN [parsed EXCEPT !.text = resp.text]
                     ELSE parsed
    IN  IF extracted.text = "" /\ extracted.tool_calls = <<>>
        THEN [extracted EXCEPT !.text = FallbackText]
        ELSE extracted

AssistantReply(s, msgs, text) ==
    [messages |-> Append(msgs, PlainTurn("assistant", text)),
     current_tool |-> NoTool,
     last_tool_outputs |-> s.last_tool_outputs,
     error |-> s.error]

agent_node_turn_keeps_first(s, available, resp) ==
    IF ~available
    THEN AssistantReply(s, s.messages, UnavailableText)
    ELSE IF FirstRaising(s.messages) <= Len(s.messages)
    THEN [AssistantReply(s, ConvertMessages(s.messages), RequestErrorText)
            EXCEPT !.error = "exception in agent_node"]
    ELSE IF resp.raises
    THEN AssistantReply(s, ConvertMessages(s.messages), GenerationErrorText)
    ELSE LET parsed == ParseResponse(resp)
         IN  IF parsed.tool_calls # <<>>
             THEN [messages |-> Append(ConvertMessages(s.messages),
                                       Turn("assistant", parsed.text,
                                            << parsed.tool_calls[1] >>, NoKey, NoKey)),
                   current_tool |-> parsed.tool_calls[1],
                   last_tool_outputs |-> s.last_tool_outputs,
                   error |-> s.error]
             ELSE AssistantReply(s, ConvertMessages(s.messages), parsed.text)

agent_node_dispatches_last(s, available, resp) ==
    IF ~available
    THEN AssistantReply(s, s.messages, UnavailableText)
    ELSE IF FirstRaising(s.messages) <= Len(s.messages)
    THEN [AssistantReply(s, ConvertMessages(s.messages), RequestErrorText)
            EXCEPT !.error = "exception in agent_node"]
    ELSE IF resp.raises
    THEN AssistantReply(s, ConvertMessages(s.messages), GenerationErrorText)
    ELSE LET parsed == ParseResponse(resp)
         IN  IF parsed.tool_calls # <<>>
             THEN [messages |-> Append(ConvertMessages(s.messages),
                                       Turn("assistant", parsed.text, parsed.tool_calls,
                                            NoKey, NoKey)),
                   current_tool |-> parsed.tool_calls[Len(parsed.tool_calls)],
                   last_tool_outputs |-> s.last_tool_outputs,
                   error |-> s.error]
             ELSE AssistantReply(s, ConvertMessages(s.messages), parsed.text)

agent_node(s, available, resp) ==
    IF ~available
    THEN AssistantReply(s, s.messages, UnavailableText)
    ELSE IF FirstRaising(s.messages) <= Len(s.messages)
    THEN [AssistantReply(s, ConvertMessages(s.messages), RequestErrorText)
            EXCEPT !.error = "exception in agent_node"]
    ELSE IF resp.raises
    THEN AssistantReply(s, ConvertMessages(s.messages), GenerationErrorText)
    ELSE LET parsed == ParseResponse(resp)
         IN  IF parsed.tool_calls # <<>>
             THEN [messages |-> Append(ConvertMessages(s.messages),
                                       Turn("assistant", parsed.text, parsed.tool_calls,
                                            NoKey, NoKey)),
                   current_tool |-> parsed.tool_calls[1],
                   last_tool_outputs |-> s.last_tool_outputs,
                   error |-> s.error]
             ELSE AssistantReply(s, ConvertMessages(s.messages), parsed.text)

\* Which way agent_node went (history only).
AgentOutcome(s, available, resp) ==
    IF ~available THEN "unavailable"
    ELSE IF FirstRaising(s.messages) <= Len(s.messages) THEN "request_error"
    ELSE IF resp.raises THEN "llm_error"
    ELSE IF ParseParts(resp.parts, "", <<>>).tool_calls # <<>> THEN "tool_call"
    ELSE IF ParseParts(resp.parts, "", <<>>).text # "" \/ Truthy(resp.text) THEN "text"
    ELSE "fallback"

\* The text the collaborator produced in this step (history only).
AgentText(s, available, resp) ==
    IF AgentOutcome(s, available, resp) \in { "text", "tool_call" }
    THEN ParseResponse(resp).text
    ELSE ""

(***************************************************************************)
(* tool_node: one ACT step                                                 *)
(***************************************************************************)
ToolResult(behaviour) ==
    IF behaviour = ToolRaises THEN "Error executing tool: timeout" ELSE behaviour

tool_node_hard_fail(s, behaviour) ==
    IF s.current_tool = NoTool
    THEN [s EXCEPT !.error = "No tool specified for execution"]
    ELSE IF s.current_tool.name \notin get_tools
    THEN [s EXCEPT !.error = "Tool " \o s.current_tool.name \o " not found",
                   !.current_tool = NoTool]
    ELSE IF behaviour = ToolRaises
    THEN [s EXCEPT !.error = "Error executing tool: timeout", !.current_tool = NoTool]
    ELSE [messages |-> Append(s.messages, Turn("tool", behaviour, <<>>,
                                               s.current_tool.name, s.current_tool.id)),
          current_tool |-> NoTool,
          last_tool_outputs |-> Append(s.last_tool_outputs,
                                       [tool |-> s.current_tool.name,
                                        args |-> s.current_tool.args,
                                        result |-> behaviour]),
          error |-> s.error]

tool_node_not_found_unflagged(s, behaviour) ==
    IF s.current_tool = NoTool
    THEN [s EXCEPT !.error = "No tool specified for execution"]
    ELSE IF s.current_tool.name \notin get_tools
    THEN [s EXCEPT !.current_tool = NoTool]
    ELSE [messages |-> Append(s.messages, Turn("tool", ToolResult(behaviour), <<>>,
                                               s.current_tool.name, s.current_tool.id)),
          current_tool |-> NoTool,
          last_tool_outputs |-> Append(s.last_tool_outputs,
                                       [tool |-> s.current_tool.name,
                                        args |-> s.current_tool.args,
                                        result |-> ToolResult(behaviour)]),
          error |-> s.error]

tool_node_prepends_record(s, behaviour) ==
    IF s.current_tool = NoTool
    THEN [s EXCEPT !.error = "No tool specified for execution"]
    ELSE IF s.current_tool.name \notin get_tools
    THEN [s EXCEPT !.error = "Tool " \o s.current_tool.name \o " not found",
                   !.current_tool = NoTool]
    ELSE [messages |-> Append(s.messages, Turn("tool", ToolResult(behaviour), <<>>,
                                               s.current_tool.name, s.current_tool.id)),
          current_tool |-> NoTool,
          last_tool_outputs |-> << [tool |-> s.current_tool.name,
                                    args |-> s.current_tool.args,
                                    result |-> ToolResult(behaviour)] >>
                                \o s.last_tool_outputs,
          error |-> s.error]

tool_node_not_found_as_turn(s, behaviour) ==
    IF s.current_tool = NoTool
    THEN [s EXCEPT !.error = "No tool specified for execution"]
    ELSE LET tool_result == IF s.current_tool.name \notin get_tools
                            THEN "Tool " \o s.current_tool.name \o " not found"
                            ELSE ToolResult(behaviour)
         IN  [messages |-> Append(s.messages,
                                  Turn("tool", tool_result, <<>>,
                                       s.current_tool.name, s.current_tool.id)),
              current_tool |-> NoTool,
              last_tool_outputs |-> Append(s.last_tool_outputs,
                                           [tool |-> s.current_tool.name,
                                            args |-> s.current_tool.args,
                                            result |-> tool_result]),
              error |-> IF s.current_tool.name \notin get_tools
                        THEN tool_result ELSE s.error]

tool_node(s, behaviour) ==
    IF s.current_tool = NoTool
    THEN [s EXCEPT !.error = "No tool specified for execution"]
    ELSE IF s.current_tool.name \notin get_tools
    THEN [s EXCEPT !.error = "Tool " \o s.current_tool.name \o " not found",
                   !.current_tool = NoTool]
    ELSE LET tool_result == ToolResult(behaviour)
             tool_output == [tool |-> s.current_tool.name,
                             args |-> s.current_tool.args,
                             result |-> tool_result]
             tool_message == Turn("tool", tool_result, <<>>,
                                  s.current_tool.name, s.current_tool.id)
         IN  [messages |-> Append(s.messages, tool_message),
              current_tool |-> NoTool,
              last_tool_outputs |-> Append(s.last_tool_outputs, tool_output),
              error |-> s.error]

ToolOutcome(s, behaviour) ==
    IF s.current_tool = NoTool THEN "no_tool"
    ELSE IF s.current_tool.name \notin get_tools THEN "not_found"
    ELSE IF behaviour = ToolRaises THEN "raised"
    ELSE "ok"

(***************************************************************************)
(* should_continue: the router evaluated after every agent_node            *)
(***************************************************************************)
should_continue_tool_before_error(s) ==
    IF s.current_tool # NoTool /\ Len(s.last_tool_outputs) < MaxToolExecutions
    THEN "tool_node"
    ELSE "END"

should_continue_inclusive(s) ==
    IF Truthy(s.error) THEN "END"
    ELSE IF s.current_tool # NoTool /\ Len(s.last_tool_outputs) <= MaxToolExecutions
    THEN "tool_node"
    ELSE "END"

should_continue_ignores_pending(s) ==
    IF Truthy(s.error) THEN "END"
    ELSE IF Len(s.last_tool_outputs) < MaxToolExecutions
    THEN "tool_node"
    ELSE "END"

should_continue_stops_early(s) ==
    IF Truthy(s.error) THEN "END"
    ELSE IF s.current_tool # NoTool /\ Len(s.last_tool_outputs) < MaxToolExecutions - 1
    THEN "tool_node"
    ELSE "END"

should_continue(s) ==
    IF Truthy(s.error) THEN "END"
    ELSE IF s.current_tool # NoTool /\ Len(s.last_tool_outputs) < MaxToolExecutions
    THEN "tool_node"
    ELSE "END"

(***************************************************************************)
(* process: the synchronous entry point                                    *)
(***************************************************************************)
\* raised: an exception left process() instead of a returned dict.
Result(response, outputs, err) ==
    [response |-> response, tool_outputs |-> outputs, error |-> err, raised |-> FALSE]

NoResult == [response |-> None, tool_outputs |-> <<>>, error |-> None, raised |-> FALSE]

ProcessExcept_reraises(exception) ==
    [response |-> None, tool_outputs |-> <<>>, error |-> exception, raised |-> TRUE]

\* The handler of process(): whatever is raised inside its try block
\* becomes an error result.
ProcessExcept(exception) == Result(RequestErrorText, <<>>, exception)

ProcessResult_ceiling_is_error(final) ==
    LET msgs == final.messages
        assistant == { i \in 1..Len(msgs) : msgs[i].role = "assistant" }
        last == CHOOSE i \in assistant : \A j \in assistant : j <= i
        response == IF assistant = {} THEN FallbackText ELSE msgs[last].content
    IN  IF \E i \in 1..Len(msgs) : msgs[i].role = NoKey
        THEN ProcessExcept("KeyError: role")
        ELSE IF response = None
        THEN ProcessExcept("TypeError: NoneType is not subscriptable")
        ELSE Result(response, final.last_tool_outputs,
                    IF final.current_tool # NoTool
                    THEN "Maximum tool executions reached" ELSE final.error)

ProcessResult_first_assistant(final) ==
    LET msgs == final.messages
        assistant == { i \in 1..Len(msgs) : msgs[i].role = "assistant" }
        first == CHOOSE i \in assistant : \A j \in assistant : i <= j
        response == IF assistant = {} THEN FallbackText ELSE msgs[first].content
    IN  IF \E i \in 1..Len(msgs) : msgs[i].role = NoKey
        THEN ProcessExcept("KeyError: role")
        ELSE IF response = None
        THEN ProcessExcept("TypeError: NoneType is not subscriptable")
        ELSE Result(response, final.last_tool_outputs, final.error)

\* The extraction of the response from the final state; msg["role"] raises
\* KeyError on a turn without a role, response[:100] raises TypeError on a
\* content that is None.
ProcessResult(final) ==
    LET msgs == final.messages
        assistant == { i \in 1..Len(msgs) : msgs[i].role = "assistant" }
        last == CHOOSE i \in assistant : \A j \in assistant : j <= i
        response == IF assistant = {} THEN FallbackText ELSE msgs[last].content
    IN  IF \E i \in 1..Len(msgs) : msgs[i].role = NoKey
        THEN ProcessExcept("KeyError: role")
        ELSE IF response = None
        THEN ProcessExcept("TypeError: NoneType is not subscriptable")
        ELSE Result(response, final.last_tool_outputs, final.error)

(***************************************************************************)
(* process_stream: the events yielded for one chunk of graph.astream       *)
(***************************************************************************)
Event(type, content, node) == [type |-> type, content |-> content, node |-> node]

\* No node sets needs_streaming_response, so each chunk is handled by the
\* "regular messages" branch, followed by the error check.
ChunkEvents(node_name, node_state) ==
    LET msgs == node_state.messages
        latest == msgs[Len(msgs)]
        message_events ==
            IF msgs = <<>> THEN <<>>
            ELSE IF latest.role = "assistant" /\ Truthy(latest.content)
            THEN << Event("message", latest.content, node_name) >>
            ELSE IF latest.role = "tool"
            THEN << Event("tool_output", latest.content, node_name) >>
            ELSE <<>>
        error_events ==
            IF Truthy(node_state.error)
            THEN << Event("error", node_state.error, node_name) >>
            ELSE <<>>
    IN  message_events \o error_events

CompletionEvents_only_without_error ==
    IF Truthy(error) THEN <<>> ELSE << [type |-> "completion", content |-> "", node |-> "end"] >>

CompletionEvents == << Event("completion", "", "end") >>

(***************************************************************************)
(* The run                                                                 *)
(***************************************************************************)
Current == State(messages, current_tool, last_tool_outputs, error)

Step(node, outcome, text) == [node |-> node, outcome |-> outcome, text |-> text]

CountNode(node) == Cardinality({ i \in 1..Len(steps) : steps[i].node = node })

Init ==
    /\ messages \in Histories
    /\ current_tool = NoTool
    /\ last_tool_outputs = <<>>
    /\ error = None
    /\ streaming \in BOOLEAN
    /\ llm_available \in BOOLEAN
    /\ pc = "agent_node"
    /\ steps = <<>>
    /\ result = NoResult
    /\ events = <<>>
    /\ runs = <<>>
    /\ call = <<>>
    /\ ret = <<>>

Install(s) ==
    /\ messages' = s.messages
    /\ current_tool' = s.current_tool
    /\ last_tool_outputs' = s.last_tool_outputs
    /\ error' = s.error

\* A REASON step: agent_node, then the conditional edge should_continue.
AgentNode ==
    /\ pc = "agent_node"
    /\ \E resp \in LLMResponses(CountNode("agent_node") + 1) :
          LET s == agent_node(Current, llm_available, resp)
          IN  /\ Install(s)
              /\ pc' = should_continue(s)
              /\ steps' = Append(steps, Step("agent_node",
                                             AgentOutcome(Current, llm_available, resp),
                                             AgentText(Current, llm_available, resp)))
              /\ events' = IF streaming THEN events \o ChunkEvents("agent_node", s)
                           ELSE events
    /\ UNCHANGED <<streaming, llm_available, result, runs, call, ret>>

\* An ACT step: tool_node, then the edge back to agent_node.
ToolNode ==
    /\ pc = "tool_node"
    /\ \E behaviour \in ToolBehaviours :
          LET s == tool_node(Current, behaviour)
          IN  /\ Install(s)
              /\ pc' = "agent_node"
              /\ steps' = Append(steps, Step("tool_node", ToolOutcome(Current, behaviour), ""))
              /\ events' = IF streaming THEN events \o ChunkEvents("tool_node", s)
                           ELSE events
    /\ UNCHANGED <<streaming, llm_available, result, runs, call, ret>>

\* process() builds its result from the final state of the graph.
ProcessReturn ==
    /\ pc = "END"
    /\ ~streaming
    /\ result' = ProcessResult(Current)
    /\ pc' = "returned"
    /\ UNCHANGED <<messages, current_tool, last_tool_outputs, error, streaming,
                   llm_available, steps, events, runs, call, ret>>

\* process_stream() signals completion when astream is exhausted.
StreamReturn ==
    /\ pc = "END"
    /\ streaming
    /\ events' = events \o CompletionEvents
    /\ pc' = "returned"
    /\ UNCHANGED <<messages, current_tool, last_tool_outputs, error, streaming,
                   llm_available, steps, result, runs, call, ret>>

Next == AgentNode \/ ToolNode \/ ProcessReturn \/ StreamReturn

Spec == Init /\ [][Next]_vars

(***************************************************************************)
(* Python str operations used by the tools, the catalog filter and the     *)
(* vibe mapper                                                             *)
(***************************************************************************)
CharAt(t, i) == SubSeq(t, i, i)

\* c translated from alphabet `from` to alphabet `to`; other characters are
\* left as they are.
Translate(c, from, to) ==
    LET hits == { i \in 1..Len(from) : CharAt(from, i) = c }
    IN  IF hits = {} THEN c ELSE CharAt(to, CHOOSE i \in hits : TRUE)

RECURSIVE lower(_)
lower(t) ==
    IF t = "" THEN ""
    ELSE Translate(Head(t), "ABCDEFGHIJKLMNOPQRSTUVWXYZ", "abcdefghijklmnopqrstuvwxyz")
         \o lower(Tail(t))

RECURSIVE upper(_)
upper(t) ==
    IF t = "" THEN ""
    ELSE Translate(Head(t), "abcdefghijklmnopqrstuvwxyz", "ABCDEFGHIJKLMNOPQRSTUVWXYZ")
         \o upper(Tail(t))

strip(t) ==
    LET RECURSIVE lstrip(_)
        lstrip(u) == IF u # "" /\ Head(u) = " " THEN lstrip(Tail(u)) ELSE u
        RECURSIVE rstrip(_)
        rstrip(u) ==
            IF u # "" /\ CharAt(u, Len(u)) = " " THEN rstrip(SubSeq(u, 1, Len(u) - 1)) ELSE u
    IN  rstrip(lstrip(t))

\* needle in hay
Contains(needle, hay) ==
    \E i \in 0..(Len(hay) - Len(needle)) : SubSeq(hay, i + 1, i + Len(needle)) = needle

\* hay.replace(old, new), scanning from the left
RECURSIVE replace(_, _, _)
replace(hay, old, new) ==
    IF Len(hay) < Len(old) THEN hay
    ELSE IF SubSeq(hay, 1, Len(old)) = old
    THEN new \o replace(SubSeq(hay, Len(old) + 1, Len(hay)), old, new)
    ELSE Head(hay) \o replace(Tail(hay), old, new)

\* hay.split(sep) for a separator of one character
RECURSIVE split(_, _)
split(hay, sep) ==
    LET cuts == { i \in 1..Len(hay) : CharAt(hay, i) = sep }
        first == CHOOSE i \in cuts : \A j \in cuts : i <= j
    IN  IF cuts = {} THEN << hay >>
        ELSE << SubSeq(hay, 1, first - 1) >> \o split(SubSeq(hay, first + 1, Len(hay)), sep)

\* sep.join(parts)
RECURSIVE join(_, _)
join(parts, sep) ==
    IF parts = <<>> THEN ""
    ELSE IF Len(parts) = 1 THEN parts[1]
    ELSE parts[1] \o sep \o join(Tail(parts), sep)

(***************************************************************************)
(* services/tools.py: input normalisation of the live-search tool          *)
(***************************************************************************)
\* Optional[int]: <<>> is None, <<n>> is the integer n.
NoInt == <<>>
Int1(n) == << n >>

InList(x, list) == \E i \in 1..Len(list) : list[i] = x

VALID_SIZES == << "XXS", "XS", "S", "M", "L", "XL", "XXL", "2XL", "3XL" >>
VALID_CATEGORIES == << "dress", "shirt", "blouse", "pants", "skirt", "jacket", "top" >>

_normalize_size_passes_all(size) ==
    IF ~Truthy(size) THEN None ELSE strip(upper(size))

_normalize_size(size) ==
    IF ~Truthy(size) THEN None
    ELSE LET normalized == strip(upper(size))
         IN  IF InList(normalized, VALID_SIZES) THEN normalized ELSE None

text_mappings ==
    { <<"tshirt", "t-shirt">>, <<"t shirt", "t-shirt">>, <<"tee", "t-shirt">>,
      <<"jeans", "denim">>, <<"trouser", "trousers">>, <<"pant", "pants">>,
      <<"navy", "navy blue">>, <<"royal", "royal blue">>,
      <<"denim", "cotton">>,
      <<"tight", "fitted">>, <<"loose", "relaxed">>, <<"baggy", "relaxed">>,
      <<"slim fit", "slim">>, <<"regular fit", "regular">>,
      <<"long", "maxi">>, <<"short", "mini">>, <<"medium", "midi">> }

_normalize_text_filter_without_break(text) ==
    IF ~Truthy(text) THEN None
    ELSE LET RECURSIVE Mapped(_, _)
             Mapped(t, fuel) ==
                 LET hits == { m \in text_mappings : m[1] = t }
                 IN  IF hits = {} \/ fuel = 0 THEN t
                     ELSE Mapped((CHOOSE m \in hits : TRUE)[2], fuel - 1)
         IN  Mapped(lower(strip(text)), 2)

\* The table is consulted once: the loop breaks at the key that matched.
_normalize_text_filter(text) ==
    IF ~Truthy(text) THEN None
    ELSE LET normalized == lower(strip(text))
             hits == { m \in text_mappings : m[1] = normalized }
         IN  IF hits = {} THEN normalized ELSE (CHOOSE m \in hits : TRUE)[2]

_validate_price_range_without_swap(min_price, max_price) ==
    LET min1 == IF min_price # NoInt /\ min_price[1] < 0 THEN Int1(0) ELSE min_price
        max1 == IF max_price # NoInt /\ max_price[1] < 0 THEN NoInt ELSE max_price
    IN  << min1, max1 >>

_validate_price_range(min_price, max_price) ==
    LET min1 == IF min_price # NoInt /\ min_price[1] < 0 THEN Int1(0) ELSE min_price
        max1 == IF max_price # NoInt /\ max_price[1] < 0 THEN NoInt ELSE max_price
    IN  IF min1 # NoInt /\ max1 # NoInt /\ min1[1] > max1[1]
        THEN << max1, min1 >>
        ELSE << min1, max1 >>

(***************************************************************************)
(* services/tools.py: _build_search_query                                  *)
(***************************************************************************)
text_filters ==
    << "category", "color_or_print", "fabric", "fit", "occasion",
       "sleeve_length", "neckline", "length", "pant_type" >>

FilterKeys ==
    { text_filters[i] : i \in 1..Len(text_filters) } \cup { "size", "min_price", "max_price" }

\* applied_filters = {}: a key that is absent holds <<>>, a key that is
\* present holds <<value>>.
NoFilters == [k \in FilterKeys |-> <<>>]

\* One call on the Supabase query builder.
Condition(op, field, text, number) ==
    [op |-> op, field |-> field, text |-> text, number |-> number]

\* The value of a text filter in applied_filters: a str, or a list of parts.
AppliedText(is_list, parts) == [is_list |-> is_list, parts |-> parts]

\* The body of the loop over text_filters, for one field.
ApplyTextFilter(field, value, acc) ==
    LET RECURSIVE NormalizeParts(_)
        NormalizeParts(pieces) ==
            IF pieces = <<>> THEN <<>>
            ELSE IF Truthy(strip(Head(pieces)))
                    /\ Truthy(_normalize_text_filter(strip(Head(pieces))))
            THEN << _normalize_text_filter(strip(Head(pieces))) >>
                 \o NormalizeParts(Tail(pieces))
            ELSE NormalizeParts(Tail(pieces))
        RECURSIVE OrConditions(_)
        OrConditions(parts) ==
            IF parts = <<>> THEN <<>>
            ELSE << field \o ".ilike.%" \o Head(parts) \o "%" >> \o OrConditions(Tail(parts))
        normalized_value == _normalize_text_filter(value)
        value_parts == NormalizeParts(split(replace(normalized_value, " and ", ","), ","))
        Applied(condition, text) ==
            [query |-> Append(acc.query, condition),
             applied_filters |-> [acc.applied_filters EXCEPT ![field] = << text >>]]
    IN  IF ~Truthy(value) \/ ~Truthy(normalized_value) THEN acc
        ELSE IF Contains(",", normalized_value) \/ Contains(" and ", normalized_value)
        THEN IF Len(value_parts) > 1
             THEN Applied(Condition("or_", field, join(OrConditions(value_parts), ","), 0),
                          AppliedText(TRUE, value_parts))
             ELSE IF Len(value_parts) = 1
             THEN Applied(Condition("ilike", field, "%" \o value_parts[1] \o "%", 0),
                          AppliedText(FALSE, << value_parts[1] >>))
             ELSE acc
        ELSE Applied(Condition("ilike", field, "%" \o normalized_value \o "%", 0),
                     AppliedText(FALSE, << normalized_value >>))

\* The size block: an invalid size is logged and nothing else happens.
ApplySizeFilter(size, acc) ==
    LET normalized_size == _normalize_size(size)
    IN  IF Truthy(size) /\ Truthy(normalized_size)
        THEN [query |-> Append(acc.query,
                               Condition("contains", "available_sizes", normalized_size, 0)),
              applied_filters |->
                  [acc.applied_filters EXCEPT !["size"] = << normalized_size >>]]
        ELSE acc

ApplyPriceFilters(min_price, max_price, acc) ==
    LET range == _validate_price_range(min_price, max_price)
        with_min ==
            IF range[1] # NoInt
            THEN [query |-> Append(acc.query, Condition("gte", "price", "", range[1][1])),
                  applied_filters |-> [acc.applied_filters EXCEPT !["min_price"] = range[1]]]
            ELSE acc
    IN  IF min_price = NoInt /\ max_price = NoInt THEN acc
        ELSE IF range[2] # NoInt
        THEN [query |-> Append(with_min.query, Condition("lte", "price", "", range[2][1])),
              applied_filters |-> [with_min.applied_filters EXCEPT !["max_price"] = range[2]]]
        ELSE with_min

_build_search_query(base_query, filters) ==
    LET RECURSIVE ApplyTextFilters(_, _)
        ApplyTextFilters(fields, acc) ==
            IF fields = <<>> THEN acc
            ELSE ApplyTextFilters(Tail(fields),
                                  ApplyTextFilter(Head(fields), filters[Head(fields)], acc))
    IN  ApplyPriceFilters(filters.min_price, filters.max_price,
            ApplySizeFilter(filters.size,
                ApplyTextFilters(text_filters,
                                 [query |-> base_query, applied_filters |-> NoFilters])))

(***************************************************************************)
(* services/tools.py: the tools find_apparels and get_apparel_details      *)
(***************************************************************************)
\* What the Supabase client does when a tool runs: there is no client
\* (ToolsManager.init failed or close() was called), a query raises, the
\* table is empty, no row matches, or rows match.
StoreStates == { "no_client", "count_raises", "search_raises", "empty", "no_match", "rows" }

UnavailableStores == { "no_client", "count_raises", "search_raises" }

StoreError == "connection reset"

\* Rows of the table, and rows that match, when the store answers "rows".
MaxRows == 3

SearchPayload(success, count, total, message, applied, suggestions) ==
    [success |-> success, count |-> count, total_in_db |-> total, message |-> message,
     filters_applied |-> applied, suggestions |-> suggestions]

DetailsPayload(success, apparel, message) ==
    [success |-> success, apparel |-> apparel, message |-> message]

\* What one call of a tool did: the dict it returned (or the exception that
\* left it) and the queries it executed on the store.
Returned(payload, sent) == [raised |-> FALSE, result |-> payload, sent |-> sent]
Raised(sent) == [raised |-> TRUE, result |-> DetailsPayload(FALSE, None, StoreError), sent |-> sent]

_generate_suggestions(failed_filters) ==
    LET present == { k \in FilterKeys : failed_filters[k] # <<>> }
    IN  (IF "size" \in present
         THEN << "Try different sizes like " \o join(SubSeq(VALID_SIZES, 1, 5), ", ") >>
         ELSE <<>>)
        \o (IF "category" \in present
            THEN << "Try browsing other categories like "
                    \o join(SubSeq(VALID_CATEGORIES, 1, 3), ", ") >>
            ELSE <<>>)
        \o (IF "max_price" \in present \/ "min_price" \in present
            THEN << "Try adjusting your price range" >>
            ELSE <<>>)
        \o (IF Cardinality(present) > 3
            THEN << "Try using fewer filters to see more options" >>
            ELSE <<>>)

Min(a, b) == IF a <= b THEN a ELSE b
Max(a, b) == IF a >= b THEN a ELSE b

\* limit = min(max(1, limit or 20), 100): None and 0 are falsy.
ClampLimit_unclamped(limit) == IF limit = NoInt \/ limit[1] = 0 THEN 20 ELSE limit[1]

ClampLimit(limit) ==
    Min(Max(1, IF limit = NoInt \/ limit[1] = 0 THEN 20 ELSE limit[1]), 100)

ValidSortBy(sort_by) == IF sort_by \in { "name", "price", "id" } THEN sort_by ELSE "name"

ValidSortOrder(sort_order) == IF sort_order \in { "asc", "desc" } THEN sort_order ELSE "asc"

\* The search find_apparels sends to the store: the conditions built from
\* its filters, then order(), then limit().
SearchRequest(a) ==
    LET built == _build_search_query(<<>>, a)
    IN  [table |-> "apparels", query |-> built.query,
         order |-> ValidSortBy(a.sort_by), desc |-> ValidSortOrder(a.sort_order) = "desc",
         limit |-> ClampLimit(a.limit)]

\* limit 0: limit() is not called on this query.
CountRequest ==
    [table |-> "apparels", query |-> <<>>, order |-> None, desc |-> FALSE, limit |-> 0]

SearchExcept_reraises(sent) == Raised(sent)

\* The handler of find_apparels: an exception raised inside its try block
\* becomes a payload.
SearchExcept(sent) ==
    Returned(SearchPayload(FALSE, 0, 0, "An error occurred while searching: " \o StoreError,
                           NoFilters, <<>>),
             sent)

\* The handler of get_apparel_details.
DetailsExcept(sent) ==
    Returned(DetailsPayload(FALSE, None,
                            "An error occurred while fetching details: " \o StoreError),
             sent)

find_apparels(a, store) ==
    LET applied_filters == _build_search_query(<<>>, a).applied_filters
        limit == ClampLimit(a.limit)
        count == Min(limit, MaxRows)
    IN  IF store = "no_client"
        THEN Returned(SearchPayload(FALSE, 0, 0,
                                    "Database connection not available. Please try again later.",
                                    NoFilters, <<>>),
                      <<>>)
        ELSE IF store = "count_raises"
        THEN SearchExcept(<< CountRequest >>)
        ELSE IF store = "empty"
        THEN Returned(SearchPayload(TRUE, 0, 0,
                                    "The apparel database appears to be empty. No items are currently available.",
                                    NoFilters,
                                    << "Please contact support to ensure the database is properly populated with apparel items." >>),
                      << CountRequest >>)
        ELSE IF store = "search_raises"
        THEN SearchExcept(<< CountRequest, SearchRequest(a) >>)
        ELSE IF store = "rows"
        THEN Returned(SearchPayload(TRUE, count, MaxRows,
                                    "Found " \o ToString(count) \o " apparel(s)"
                                    \o (IF count = limit /\ MaxRows > limit
                                        THEN " (showing first " \o ToString(limit)
                                             \o " of possibly more results)"
                                        ELSE ""),
                                    applied_filters, <<>>),
                      << CountRequest, SearchRequest(a) >>)
        ELSE Returned(SearchPayload(TRUE, 0, MaxRows,
                                    "No apparels found matching your criteria",
                                    applied_filters, _generate_suggestions(applied_filters)),
                      << CountRequest, SearchRequest(a) >>)

DetailsRequest(apparel_id) ==
    [table |-> "apparels", query |-> << Condition("eq", "id", strip(apparel_id), 0) >>,
     order |-> None, desc |-> FALSE, limit |-> 0]

get_apparel_details(apparel_id, store) ==
    IF store = "no_client"
    THEN Returned(DetailsPayload(FALSE, None, "Database connection not available"), <<>>)
    ELSE IF ~Truthy(apparel_id) \/ ~Truthy(strip(apparel_id))
    THEN Returned(DetailsPayload(FALSE, None, "Please provide a valid apparel ID"), <<>>)
    ELSE IF store \in { "count_raises", "search_raises" }
    THEN DetailsExcept(<< DetailsRequest(apparel_id) >>)
    ELSE IF store = "rows"
    THEN Returned(DetailsPayload(TRUE, strip(apparel_id),
                                 "Found details for " \o strip(apparel_id)),
                  << DetailsRequest(apparel_id) >>)
    ELSE Returned(DetailsPayload(FALSE, None, "No apparel found with ID: " \o apparel_id),
                  << DetailsRequest(apparel_id) >>)

(***************************************************************************)
(* The loop running the tools against the store                            *)
(***************************************************************************)
\* The arguments find_apparels receives when the caller passes none.
DefaultFindArgs ==
    [category |-> None, color_or_print |-> None, fabric |-> None, fit |-> None,
     occasion |-> None, size |-> None, sleeve_length |-> None, neckline |-> None,
     length |-> None, pant_type |-> None, max_price |-> NoInt, min_price |-> NoInt,
     limit |-> Int1(20), sort_by |-> "name", sort_order |-> "asc"]

\* function_call.args of the responses in LLMResponses, as keyword arguments.
FindArgs(args) ==
    IF args = "{size: M}" THEN [DefaultFindArgs EXCEPT !.size = "M"] ELSE DefaultFindArgs

DetailsId(args) == IF args = "{id: 7}" THEN "7" ELSE ""

\* tool.ainvoke(current_tool["args"])
InvokeTool(name, args, store) ==
    IF name = "find_apparels" THEN find_apparels(FindArgs(args), store)
    ELSE get_apparel_details(DetailsId(args), store)

\* str(tool_result) of a payload; the keys other than success and message
\* are elided.
Render(payload) ==
    "{'success': " \o (IF payload.success THEN "True" ELSE "False")
    \o ", 'message': '" \o payload.message \o "'}"

InitStore ==
    /\ messages = << PlainTurn("user", "hello") >>
    /\ current_tool = NoTool
    /\ last_tool_outputs = <<>>
    /\ error = None
    /\ streaming \in BOOLEAN
    /\ llm_available \in BOOLEAN
    /\ pc = "agent_node"
    /\ steps = <<>>
    /\ result = NoResult
    /\ events = <<>>
    /\ runs = <<>>
    /\ call = <<>>
    /\ ret = <<>>

\* tool_node, with the tool it resolved run against the store.
StoreToolNode ==
    /\ pc = "tool_node"
    /\ \E store \in StoreStates :
       \E did \in { InvokeTool(current_tool.name, current_tool.args, store) } :
       \E behaviour \in { IF did.raised THEN ToolRaises ELSE Render(did.result) } :
       \E s \in { tool_node(Current, behaviour) } :
          /\ Install(s)
          /\ pc' = "agent_node"
          /\ steps' = Append(steps, Step("tool_node", ToolOutcome(Current, behaviour), ""))
          /\ events' = IF streaming THEN events \o ChunkEvents("tool_node", s)
                       ELSE events
          /\ call' = IF current_tool.name \in get_tools
                     THEN << [tool |-> current_tool.name, args |-> current_tool.args,
                              store |-> store] >>
                     ELSE <<>>
          /\ ret' = IF current_tool.name \in get_tools THEN << did >> ELSE <<>>
    /\ UNCHANGED <<streaming, llm_available, result, runs>>

NextStore == AgentNode \/ StoreToolNode \/ ProcessReturn \/ StreamReturn

SpecStore == InitStore /\ [][NextStore]_vars

(***************************************************************************)
(* The tools called directly, over a range of arguments                    *)
(***************************************************************************)
\* The single-run loop at rest.
LoopIdle(at) ==
    /\ messages = <<>>
    /\ current_tool = NoTool
    /\ last_tool_outputs = <<>>
    /\ error = None
    /\ streaming = FALSE
    /\ pc = at
    /\ steps = <<>>
    /\ result = NoResult
    /\ events = <<>>

loop == <<messages, current_tool, last_tool_outputs, error, streaming, pc, steps,
          result, events>>

\* The calls made: find_apparels over sizes (valid, valid after trimming
\* and upper-casing, invalid, empty), limits, sort fields, a category and
\* price bounds, and over text filters (blank, synonyms, separators, empty
\* parts) with price bounds that are absent, negative, equal or inverted;
\* get_apparel_details over ids, blank ones included.
ToolCalls ==
    LET SizeInputs == { None, "", "M", "m", " xl ", "2xl", "sm", "XXXL", " " }
        LimitInputs == { NoInt } \cup { Int1(n) : n \in { -3, 0, 1, 2, 20, 100, 101, 250 } }
        SortByInputs == { None, "name", "price", "id", "rating", "Name" }
        CategoryInputs == { None, "Dress", "jeans, tee" }
        PriceInputs ==
            { << NoInt, NoInt >>, << Int1(-1), Int1(50) >>, << Int1(50), Int1(10) >> }
        FindArgInputs ==
            { [DefaultFindArgs EXCEPT
                  !.size = sz, !.limit = l, !.sort_by = sb,
                  !.sort_order = IF sb = "price" THEN "desc"
                                 ELSE IF sb = "Name" THEN "down" ELSE "asc",
                  !.category = c, !.min_price = p[1], !.max_price = p[2]] :
                sz \in SizeInputs, l \in LimitInputs, sb \in SortByInputs,
                c \in CategoryInputs, p \in PriceInputs }
        TextInputs ==
            { None, "  ", " Jeans ", "denim", "jeans,", ",", "Tee and Jeans",
              "dress, , top ", "t shirt,pant and loose" }
        FitInputs == { None, "Loose", "slim fit and baggy" }
        BoundInputs == { NoInt } \cup { Int1(n) : n \in { -4, -2, 0, 10, 30 } }
        FilterArgInputs ==
            { [DefaultFindArgs EXCEPT
                  !.category = c, !.fit = f, !.min_price = lo, !.max_price = hi] :
                c \in TextInputs, f \in FitInputs, lo \in BoundInputs, hi \in BoundInputs }
        ApparelIdInputs == { "", "  ", "D001", " D002 " }
    IN  { [tool |-> "find_apparels", args |-> a, store |-> st] :
            a \in FindArgInputs \cup FilterArgInputs, st \in StoreStates }
        \cup { [tool |-> "get_apparel_details", args |-> [apparel_id |-> id], store |-> st] :
                 id \in ApparelIdInputs, st \in StoreStates }

InitTools ==
    /\ LoopIdle("tools")
    /\ llm_available = FALSE
    /\ runs = <<>>
    /\ call \in { << c >> : c \in ToolCalls }
    /\ ret = <<>>

FindApparels ==
    /\ ret = <<>>
    /\ call[1].tool = "find_apparels"
    /\ ret' = << find_apparels(call[1].args, call[1].store) >>
    /\ UNCHANGED <<loop, llm_available, runs, call>>

GetApparelDetails ==
    /\ ret = <<>>
    /\ call[1].tool = "get_apparel_details"
    /\ ret' = << get_apparel_details(call[1].args.apparel_id, call[1].store) >>
    /\ UNCHANGED <<loop, llm_available, runs, call>>

NextTools == FindApparels \/ GetApparelDetails

SpecTools == InitTools /\ [][NextTools]_vars

(***************************************************************************)
(* services/product_service.py: the in-memory catalog filter               *)
(***************************************************************************)
Product(id, name, category, price, fabric, fit, color, pattern, style, occasion) ==
    [id |-> id, name |-> name, category |-> category, price |-> price, fabric |-> fabric,
     fit |-> fit, color |-> color, pattern |-> pattern, style |-> style,
     occasion |-> occasion]

MOCK_PRODUCTS ==
    << Product("T001", "Sun-Dapple Floral Top", "top", 72, "Linen", "Relaxed",
               "Pastel yellow", "Floral", << "casual", "feminine" >>,
               << "everyday", "casual outing" >>),
       Product("D004", "Meadow Flatter Dress", "dress", 110, "Rayon", "Relaxed",
               "Pastel floral", "Floral", << "cute", "feminine" >>, << "brunch", "date" >>),
       Product("J002", "Urban Edge Jeans", "bottom", 95, "Denim", "Slim",
               "Dark blue", "Solid", << "casual", "edgy" >>,
               << "everyday", "casual outing" >>),
       Product("B005", "Power Move Blazer", "outerwear", 150, "Wool blend", "Tailored",
               "Black", "Solid", << "formal", "sophisticated" >>, << "work", "business" >>),
       Product("S003", "Silky Evening Skirt", "bottom", 85, "Silk", "A-line",
               "Deep burgundy", "Solid", << "formal", "elegant" >>,
               << "formal event", "evening" >>) >>

\* isinstance(product[attr_key], list) / isinstance(product[attr_key], str)
ListFields == { "style", "occasion" }
StrFields == { "id", "name", "category", "fabric", "fit", "color", "pattern" }

\* One value of the filters dict: a list of strings, or a single string
\* (is_list FALSE, values of length 1).
FilterValue(is_list, values) == [is_list |-> is_list, values |-> values]

\* The keys of the filters dict: a key that is absent holds <<>>.
FilterDictKeys == { "pattern", "style", "fabric", "size", "price" }

HasKey(filters, k) == filters[k] # <<>>

\* Whether the product satisfies the filter on attr_key; both branches of
\* isinstance(attr_values, list) test "any value matches".
Satisfies(product, attr_key, attr_values) ==
    IF attr_key \in ListFields
    THEN \E i \in 1..Len(attr_values.values) : \E j \in 1..Len(product[attr_key]) :
            lower(attr_values.values[i]) = lower(product[attr_key][j])
    ELSE IF attr_key \in StrFields
    THEN \E i \in 1..Len(attr_values.values) :
            Contains(lower(attr_values.values[i]), lower(product[attr_key]))
    ELSE FALSE

max_possible_score_counts_every_key(product, filters) ==
    Cardinality({ k \in DOMAIN filters : HasKey(filters, k) })

max_possible_score(product, filters) ==
    Cardinality({ k \in DOMAIN filters : HasKey(filters, k) /\ k \in DOMAIN product })

match_score(product, filters) ==
    Cardinality({ k \in DOMAIN filters :
                    /\ HasKey(filters, k)
                    /\ k \in DOMAIN product
                    /\ Satisfies(product, k, filters[k][1]) })

\* An entry of results; match_percentage is score / possible, kept as the
\* two integers (possible = 0 stands for the percentage 0).
Entry(product, filters) ==
    [product |-> product, score |-> match_score(product, filters),
     possible |-> max_possible_score(product, filters)]

\* match_score / max_possible_score if max_possible_score > 0 else 0, as
\* the pair numerator, denominator.
match_percentage(e) == IF e.possible > 0 THEN << e.score, e.possible >> ELSE << 0, 1 >>

\* a["match_percentage"] >= b["match_percentage"]
PercentageGE(a, b) ==
    LET Denominator(e) == IF e.possible = 0 THEN 1 ELSE e.possible
    IN  a.score * Denominator(b) >= b.score * Denominator(a)

RECURSIVE Scored_keeps_zero(_, _)
Scored_keeps_zero(products, filters) ==
    IF products = <<>> THEN <<>>
    ELSE << Entry(Head(products), filters) >> \o Scored_keeps_zero(Tail(products), filters)

\* The loop over self.products: the entries of the products that matched at
\* least one filter, in catalog order.
RECURSIVE Scored(_, _)
Scored(products, filters) ==
    IF products = <<>> THEN <<>>
    ELSE IF match_score(Head(products), filters) > 0
    THEN << Entry(Head(products), filters) >> \o Scored(Tail(products), filters)
    ELSE Scored(Tail(products), filters)

\* e placed behind the entries of sorted whose percentage is at least its
\* own (strict: behind those whose percentage is larger).
RECURSIVE SortFold(_, _, _)
SortFold(todo, sorted, strict) ==
    LET RECURSIVE InsertEntry(_, _)
        InsertEntry(e, into) ==
            IF into = <<>> THEN << e >>
            ELSE IF (IF strict THEN ~PercentageGE(e, Head(into))
                     ELSE PercentageGE(Head(into), e))
            THEN << Head(into) >> \o InsertEntry(e, Tail(into))
            ELSE << e >> \o into
    IN  IF todo = <<>> THEN sorted
        ELSE SortFold(Tail(todo), InsertEntry(Head(todo), sorted), strict)

SortDescending_ties_reversed(results) == SortFold(results, <<>>, TRUE)

\* results.sort(key=match_percentage, reverse=True): descending and stable,
\* entries of equal percentage keep their order.
SortDescending(results) == SortFold(results, <<>>, FALSE)

\* seq[:limit]: a negative limit counts from the end.
SliceTo(seq, limit) ==
    SubSeq(seq, 1, IF limit >= 0 THEN Min(limit, Len(seq)) ELSE Max(Len(seq) + limit, 0))

filter_products(filters, limit) ==
    LET results == SliceTo(SortDescending(Scored(MOCK_PRODUCTS, filters)), limit)
    IN  [i \in 1..Len(results) |-> results[i].product]

(***************************************************************************)
(* The catalog filter called over a range of queries and limits            *)
(***************************************************************************)
MaxBelowZero == 2
MaxLimit == 4

\* The queries: pattern, style and fabric as lists or single strings, in
\* other cases than the catalog's; a key no product has (size); a key whose
\* field is neither a list nor a str (price).
FilterInputs ==
    LET PatternInputs ==
            { <<>>, << FilterValue(TRUE, << "solid" >>) >>,
              << FilterValue(TRUE, << "FLORAL", "paisley" >>) >>,
              << FilterValue(FALSE, << "flo" >>) >> }
        StyleInputs ==
            { <<>>, << FilterValue(TRUE, << "casual", "formal" >>) >>,
              << FilterValue(TRUE, << "Formal" >>) >>, << FilterValue(FALSE, << "edgy" >>) >> }
        FabricInputs ==
            { <<>>, << FilterValue(TRUE, << "linen", "silk" >>) >>,
              << FilterValue(TRUE, <<>>) >>, << FilterValue(FALSE, << "wool" >>) >> }
        SizeKeyInputs == { <<>>, << FilterValue(TRUE, << "M" >>) >> }
        PriceKeyInputs == { <<>>, << FilterValue(TRUE, << "72" >>) >> }
    IN  { [pattern |-> p, style |-> st, fabric |-> f, size |-> sz, price |-> pr] :
            p \in PatternInputs, st \in StyleInputs, f \in FabricInputs,
            sz \in SizeKeyInputs, pr \in PriceKeyInputs }

InitFilter ==
    /\ LoopIdle("filter")
    /\ llm_available = FALSE
    /\ runs = <<>>
    /\ call \in { << [filters |-> f, limit |-> l] >> :
                    f \in FilterInputs, l \in (0 - MaxBelowZero)..MaxLimit }
    /\ ret = <<>>

FilterProducts ==
    /\ ret = <<>>
    /\ ret' = << filter_products(call[1].filters, call[1].limit) >>
    /\ UNCHANGED <<loop, llm_available, runs, call>>

NextFilter == FilterProducts

SpecFilter == InitFilter /\ [][NextFilter]_vars

(***************************************************************************)
(* services/vibe_mapper.py                                                 *)
(***************************************************************************)
VIBE_MAPPINGS ==
    [casual |-> [style |-> << "relaxed", "everyday", "comfortable" >>,
                 fabric |-> << "cotton", "denim", "jersey", "linen" >>,
                 fit |-> << "relaxed", "regular" >>,
                 occasion |-> << "everyday", "weekend", "casual outing" >>],
     formal |-> [style |-> << "elegant", "sophisticated", "tailored" >>,
                 fabric |-> << "silk", "satin", "wool", "polyester blend" >>,
                 fit |-> << "tailored", "slim" >>,
                 occasion |-> << "work", "business", "formal event" >>],
     cute |-> [style |-> << "playful", "feminine", "youthful" >>,
               pattern |-> << "floral", "polka dot", "heart" >>,
               color |-> << "pastel", "pink", "light blue", "lavender" >>,
               occasion |-> << "date", "casual outing", "brunch" >>],
     edgy |-> [style |-> << "bold", "statement", "modern" >>,
               color |-> << "black", "dark", "metallic" >>,
               fabric |-> << "leather", "denim", "mesh" >>,
               occasion |-> << "night out", "concert", "party" >>],
     boho |-> [style |-> << "bohemian", "free-spirited", "artistic" >>,
               pattern |-> << "paisley", "floral", "ethnic" >>,
               fabric |-> << "cotton", "linen", "crochet" >>,
               fit |-> << "flowy", "relaxed" >>,
               occasion |-> << "festival", "beach", "casual outing" >>]]

\* VIBE_MAPPINGS.keys(), in the order of the dict
VibeKeys == << "casual", "formal", "cute", "edgy", "boho" >>

\* attributes = {"style": [], ...}
EmptyAttributes ==
    [k \in { "style", "fabric", "fit", "pattern", "color", "occasion" } |-> <<>>]

ExtendWith_overwrites(attributes, term) ==
    IF lower(term) \in DOMAIN VIBE_MAPPINGS
    THEN [k \in DOMAIN attributes |->
            IF k \in DOMAIN VIBE_MAPPINGS[lower(term)]
            THEN VIBE_MAPPINGS[lower(term)][k]
            ELSE attributes[k]]
    ELSE attributes

\* The body of the loop over vibe_terms: the lists of a recognised term are
\* appended to the lists collected so far.
ExtendWith(attributes, term) ==
    IF lower(term) \in DOMAIN VIBE_MAPPINGS
    THEN [k \in DOMAIN attributes |->
            IF k \in DOMAIN VIBE_MAPPINGS[lower(term)]
            THEN attributes[k] \o VIBE_MAPPINGS[lower(term)][k]
            ELSE attributes[k]]
    ELSE attributes

RECURSIVE ExtendAll(_, _)
ExtendAll(attributes, vibe_terms) ==
    IF vibe_terms = <<>> THEN attributes
    ELSE ExtendAll(ExtendWith(attributes, Head(vibe_terms)), Tail(vibe_terms))

\* The iteration order of a Python set is unspecified; list(set(xs)) is one
\* list of the distinct elements of xs, and these are the orders modelled.
SetOrders == { "first_seen", "last_seen" }

ListOfSet(xs, order) ==
    LET Reverse(ys) == [i \in 1..Len(ys) |-> ys[Len(ys) + 1 - i]]
        RECURSIVE FirstSeen(_, _)
        FirstSeen(ys, seen) ==
            IF ys = <<>> THEN <<>>
            ELSE IF Head(ys) \in seen THEN FirstSeen(Tail(ys), seen)
            ELSE << Head(ys) >> \o FirstSeen(Tail(ys), seen \cup { Head(ys) })
    IN  IF order = "first_seen" THEN FirstSeen(xs, {}) ELSE FirstSeen(Reverse(xs), {})

map_vibe_to_attributes_without_set(vibe_terms, order) ==
    LET attributes == ExtendAll(EmptyAttributes, vibe_terms)
        kept == { k \in DOMAIN attributes : attributes[k] # <<>> }
    IN  [k \in kept |-> attributes[k]]

map_vibe_to_attributes(vibe_terms, order) ==
    LET attributes == ExtendAll(EmptyAttributes, vibe_terms)
        kept == { k \in DOMAIN attributes : attributes[k] # <<>> }
    IN  [k \in kept |-> ListOfSet(attributes[k], order)]

extract_vibe_terms(query) ==
    SelectSeq(VibeKeys, LAMBDA term : Contains(term, lower(query)))

map_vibe_query(query, order) ==
    [vibe_terms |-> extract_vibe_terms(query),
     attributes |-> map_vibe_to_attributes(extract_vibe_terms(query), order)]

(***************************************************************************)
(* The vibe mapper called over a range of term lists and queries           *)
(***************************************************************************)
MaxTerms == 3

\* The calls made: term lists over two vocabulary terms, a vocabulary term
\* in another case and a term that is not in the vocabulary; queries over
\* words that hold a term, hold one in another case, or hold none.
VibeCalls ==
    LET TermInputs == { "casual", "cute", "Boho", "grunge" }
        WordInputs == { "casual", "CUTE", "boho-ish", "plain" }
    IN  { [fn |-> "map_vibe_to_attributes", words |-> t, order |-> o] :
            t \in SeqsUpTo(TermInputs, MaxTerms), o \in SetOrders }
        \cup { [fn |-> "map_vibe_query", words |-> w, order |-> o] :
                 w \in SeqsUpTo(WordInputs, MaxTerms), o \in SetOrders }

InitVibe ==
    /\ LoopIdle("vibe")
    /\ llm_available = FALSE
    /\ runs = <<>>
    /\ call \in { << c >> : c \in VibeCalls }
    /\ ret = <<>>

MapVibeToAttributes ==
    /\ ret = <<>>
    /\ call[1].fn = "map_vibe_to_attributes"
    /\ ret' = << map_vibe_to_attributes(call[1].words, call[1].order) >>
    /\ UNCHANGED <<loop, llm_available, runs, call>>

MapVibeQuery ==
    /\ ret = <<>>
    /\ call[1].fn = "map_vibe_query"
    /\ ret' = << map_vibe_query(join(call[1].words, " "), call[1].order).attributes >>
    /\ UNCHANGED <<loop, llm_available, runs, call>>

NextVibe == MapVibeToAttributes \/ MapVibeQuery

SpecVibe == InitVibe /\ [][NextVibe]_vars

(***************************************************************************)
(* Graph invocations side by side: each call of process() or               *)
(* process_stream() builds its own AgentState and hands it to the graph    *)
(* of the one AgentProcessor of the application                            *)
(***************************************************************************)
\* initial_state of process()
ProcessInitialState(history) == State(history, NoTool, <<>>, None)

StreamInitialState_without_history(history) == State(<<>>, NoTool, <<>>, None)

\* initial_state of process_stream(); streaming=True is kept in the run.
StreamInitialState(history) == State(history, NoTool, <<>>, None)

\* One invocation: the state the graph holds for it, where it stands, the
\* steps it took, what its entry point has produced, and the answers it got
\* from the LLM and from the tools.
Run(history, is_streaming, state, at, taken, yielded, returned, inputs) ==
    [history |-> history, streaming |-> is_streaming, state |-> state, pc |-> at,
     steps |-> taken, events |-> yielded, result |-> returned, inputs |-> inputs]

StartRun(history, is_streaming) ==
    Run(history, is_streaming,
        IF is_streaming THEN StreamInitialState(history) ELSE ProcessInitialState(history),
        "agent_node", <<>>, <<>>, NoResult, <<>>)

GraphState_shared(rs, r) == rs[1].state

\* The state the graph passes to a node of invocation r: the state of that
\* invocation.
GraphState(rs, r) == rs[r].state

\* agent_node executed for one invocation, on the state the graph passes.
RunAgentNode(run, s, available, resp) ==
    LET after == agent_node(s, available, resp)
    IN  [run EXCEPT
            !.state = after,
            !.pc = should_continue(after),
            !.steps = Append(@, Step("agent_node", AgentOutcome(s, available, resp),
                                     AgentText(s, available, resp))),
            !.events = IF run.streaming THEN @ \o ChunkEvents("agent_node", after) ELSE @,
            !.inputs = Append(@, [node |-> "agent_node", resp |-> resp, behaviour |-> ""])]

\* tool_node executed for one invocation.
RunToolNode(run, s, behaviour) ==
    LET after == tool_node(s, behaviour)
    IN  [run EXCEPT
            !.state = after,
            !.pc = "agent_node",
            !.steps = Append(@, Step("tool_node", ToolOutcome(s, behaviour), "")),
            !.events = IF run.streaming THEN @ \o ChunkEvents("tool_node", after) ELSE @,
            !.inputs = Append(@, [node |-> "tool_node", resp |-> LLMRaises,
                                  behaviour |-> behaviour])]

\* The graph has ended: process() builds its result, process_stream()
\* yields the completion event.
RunReturn(run) ==
    IF run.streaming
    THEN [run EXCEPT !.pc = "returned", !.events = @ \o CompletionEvents]
    ELSE [run EXCEPT !.pc = "returned", !.result = ProcessResult(run.state)]

\* The invocation alone: its steps replayed on its own state.
RECURSIVE Replay(_, _, _)
Replay(run, inputs, available) ==
    IF inputs = <<>> THEN run
    ELSE Replay(IF Head(inputs).node = "agent_node"
                THEN RunAgentNode(run, run.state, available, Head(inputs).resp)
                ELSE RunToolNode(run, run.state, Head(inputs).behaviour),
                Tail(inputs), available)

(***************************************************************************)
(* process() and process_stream() on the same history, given the same      *)
(* answers by the LLM and by the tools                                     *)
(***************************************************************************)
MaxPairHistory == 1

RunSteps(run, node) ==
    Cardinality({ i \in 1..Len(run.steps) : run.steps[i].node = node })

\* runs[1] is the call of process(), runs[2] the call of process_stream().
InitPair ==
    /\ LoopIdle("pair")
    /\ call = <<>>
    /\ ret = <<>>
    /\ llm_available \in BOOLEAN
    /\ runs \in { << StartRun(h, FALSE), StartRun(h, TRUE) >> :
                    h \in SeqsUpTo(HistoryTurns, MaxPairHistory) }

PairAgentNode ==
    /\ runs[1].pc = "agent_node"
    /\ runs[2].pc = "agent_node"
    /\ \E resp \in LLMResponses(RunSteps(runs[1], "agent_node") + 1) :
          runs' = << RunAgentNode(runs[1], GraphState(runs, 1), llm_available, resp),
                     RunAgentNode(runs[2], GraphState(runs, 2), llm_available, resp) >>
    /\ UNCHANGED <<loop, llm_available, call, ret>>

PairToolNode ==
    /\ runs[1].pc = "tool_node"
    /\ runs[2].pc = "tool_node"
    /\ \E behaviour \in ToolBehaviours :
          runs' = << RunToolNode(runs[1], GraphState(runs, 1), behaviour),
                     RunToolNode(runs[2], GraphState(runs, 2), behaviour) >>
    /\ UNCHANGED <<loop, llm_available, call, ret>>

PairReturn ==
    /\ runs[1].pc = "END"
    /\ runs[2].pc = "END"
    /\ runs' = << RunReturn(runs[1]), RunReturn(runs[2]) >>
    /\ UNCHANGED <<loop, llm_available, call, ret>>

NextPair == PairAgentNode \/ PairToolNode \/ PairReturn

SpecPair == InitPair /\ [][NextPair]_vars

(***************************************************************************)
(* Two requests in flight on the one AgentProcessor, their nodes           *)
(* interleaved by the event loop                                           *)
(***************************************************************************)
ConcurrentHistories ==
    << << PlainTurn("user", "hello") >>,
       << PlainTurn("assistant", ""), PlainTurn("user", "more") >> >>

\* What the LLM may answer to the k-th call of request r.
RunResponses(r, k) ==
    { Response(<< TextPart("request " \o ToString(r) \o " reply " \o ToString(k)) >>),
      Response(<< CallPart(IF r = 1 THEN "find_apparels" ELSE "get_apparel_details",
                           "{id: " \o ToString(k) \o "}") >>) }

InitConcurrent ==
    /\ LoopIdle("concurrent")
    /\ call = <<>>
    /\ ret = <<>>
    /\ llm_available \in BOOLEAN
    /\ runs \in { << StartRun(ConcurrentHistories[1], s1), StartRun(ConcurrentHistories[2], s2) >> :
                    s1 \in BOOLEAN, s2 \in BOOLEAN }

ConcurrentAgentNode ==
    /\ \E r \in DOMAIN runs :
          /\ runs[r].pc = "agent_node"
          /\ \E resp \in RunResponses(r, RunSteps(runs[r], "agent_node") + 1) :
                runs' = [runs EXCEPT
                            ![r] = RunAgentNode(runs[r], GraphState(runs, r), llm_available, resp)]
    /\ UNCHANGED <<loop, llm_available, call, ret>>

ConcurrentToolNode ==
    /\ \E r \in DOMAIN runs :
          /\ runs[r].pc = "tool_node"
          /\ \E behaviour \in ToolBehaviours :
                runs' = [runs EXCEPT ![r] = RunToolNode(runs[r], GraphState(runs, r), behaviour)]
    /\ UNCHANGED <<loop, llm_available, call, ret>>

ConcurrentReturn ==
    /\ \E r \in DOMAIN runs :
          /\ runs[r].pc = "END"
          /\ runs' = [runs EXCEPT ![r] = RunReturn(runs[r])]
    /\ UNCHANGED <<loop, llm_available, call, ret>>

NextConcurrent == ConcurrentAgentNode \/ ConcurrentToolNode \/ ConcurrentReturn

SpecConcurrent == InitConcurrent /\ [][NextConcurrent]_vars

(***************************************************************************)
(* services/chat_service.py and services/chat.py: the follow-up flow       *)
(* process_initial_query -> ask_follow_up -> process_follow_up ->          *)
(* generate_recommendations, routed by state["current_step"]               *)
(***************************************************************************)
\* The mock response call_llm generates from the content of the last message.
mock_response(last_message) ==
    LET lowered == lower(last_message)
    IN  IF Contains("size", lowered) \/ Contains("budget", lowered)
        THEN "Thanks for sharing that information. What kind of style or occasion are you looking for?"
        ELSE IF \E word \in { "casual", "formal", "party", "work" } : Contains(word, lowered)
        THEN "Great! Based on your preferences, I'll find some recommendations that might work for you."
        ELSE "Could you tell me more about what size you're looking for and your budget range?"

\* mock_response of the contents a turn of the follow-up flow can have (the
\* user's queries, the LLM's text, the fallback of process_initial_query and
\* the mock responses themselves), tabulated once.
MockResponseTable ==
    LET given == { "", "hi", "llm text", "something casual and cute", "a gift for my sister",
                   "my size is M",
                   "I'm here to help you find clothing. Could you tell me more about what you're looking for?" }
        answered == given \cup { mock_response(m) : m \in given }
    IN  [m \in answered \cup { mock_response(m) : m \in answered } |-> mock_response(m)]

\* call_llm: the text of the LLM, or (answer None: no client, or the call
\* failed) the mock response chosen from the last message.
call_llm(msgs, answer) ==
    LET last_message == IF msgs = <<>> THEN "" ELSE msgs[Len(msgs)].content
    IN  IF answer # None THEN answer
        ELSE IF last_message \in DOMAIN MockResponseTable THEN MockResponseTable[last_message]
        ELSE mock_response(last_message)

\* The state process_chat_message hands to the graph.
FollowUpState(msgs) ==
    [messages |-> msgs, current_step |-> "process_initial_query", attributes |-> <<>>,
     recommendations |-> <<>>, follow_up_count |-> 0]

\* messages[-1]["content"] if messages[-1]["role"] == "user" else ""
LastUserQuery(s) ==
    IF s.messages[Len(s.messages)].role = "user"
    THEN s.messages[Len(s.messages)].content ELSE ""

ask_follow_up_uncounted(s, answer) ==
    [s EXCEPT !.messages = Append(@, PlainTurn("assistant", call_llm(s.messages, answer))),
              !.current_step = IF s.follow_up_count >= 2 THEN "generate_recommendations"
                               ELSE "process_follow_up"]

ask_follow_up_skips_recommendations(s, answer) ==
    [s EXCEPT !.follow_up_count = @ + 1,
              !.messages = Append(@, PlainTurn("assistant", call_llm(s.messages, answer))),
              !.current_step = "END"]

\* The same in both files.
ask_follow_up(s, answer) ==
    [s EXCEPT !.follow_up_count = @ + 1,
              !.messages = Append(@, PlainTurn("assistant", call_llm(s.messages, answer))),
              !.current_step = IF s.follow_up_count + 1 >= 2 THEN "generate_recommendations"
                               ELSE "process_follow_up"]

MaxFollowUpHistory == 2

\* The invocations: the flow of one of the two files, on a history of user
\* turns (with a vibe term, without one, mentioning a size) and assistant
\* turns, with one of the orders list(set()) can give.
FollowUpQueries == { "something casual and cute", "a gift for my sister", "my size is M" }

FollowUpCalls ==
    { [flow |-> f, history |-> h, order |-> o] :
        f \in { "chat_service", "chat" },
        h \in SeqsUpTo({ PlainTurn("user", q) : q \in FollowUpQueries }
                       \cup { PlainTurn("assistant", "hi") }, MaxFollowUpHistory),
        o \in SetOrders }

\* map_vibe_query(user_query)["attributes"] for the queries the nodes pass it
\* ("" when the last turn is not a user turn), tabulated once.
VibeQueryTable ==
    [q \in FollowUpQueries \cup { "" } |->
        [o \in SetOrders |-> map_vibe_query(q, o).attributes]]

\* runs[1]: the state of the graph, the nodes executed, and what
\* process_chat_message returned.
InitFollowUp ==
    /\ LoopIdle("follow_up")
    /\ llm_available \in BOOLEAN
    /\ call \in { << c >> : c \in FollowUpCalls }
    /\ runs = << [state |-> FollowUpState(call[1].history), steps |-> <<>>,
                  raised |-> FALSE, result |-> <<>>] >>
    /\ ret = <<>>

\* The answers call_llm can get: none without an LLM.
Answers == IF llm_available THEN { None, "llm text" } ELSE { None }

AtStep(step) ==
    /\ runs[1].result = <<>>
    /\ ~runs[1].raised
    /\ runs[1].state.current_step = step

ProcessInitialQuery ==
    /\ AtStep("process_initial_query")
    /\ \E answer \in Answers :
          LET s == runs[1].state
              attributes == VibeQueryTable[LastUserQuery(s)][call[1].order]
              next_step == IF Cardinality(DOMAIN attributes) < 2 THEN "ask_follow_up"
                           ELSE "generate_recommendations"
              after ==
                  IF s.messages # <<>>
                  THEN [s EXCEPT !.attributes = attributes,
                                 !.follow_up_count = 0,
                                 !.current_step = next_step,
                                 !.messages = Append(@, PlainTurn("assistant",
                                                          call_llm(s.messages, answer)))]
                  ELSE \* messages[-1] raises IndexError: ChatService catches it
                       [s EXCEPT !.messages = << PlainTurn("assistant",
                            "I'm here to help you find clothing. Could you tell me more about what you're looking for?") >>,
                                 !.current_step = "ask_follow_up",
                                 !.attributes = <<>>,
                                 !.follow_up_count = 0]
          IN  runs' = << [runs[1] EXCEPT
                            !.steps = Append(@, "process_initial_query"),
                            !.state = IF s.messages = <<>> /\ call[1].flow = "chat"
                                      THEN s ELSE after,
                            !.raised = s.messages = <<>> /\ call[1].flow = "chat"] >>
    /\ UNCHANGED <<loop, llm_available, call, ret>>

AskFollowUp ==
    /\ AtStep("ask_follow_up")
    /\ \E answer \in Answers :
          runs' = << [runs[1] EXCEPT !.steps = Append(@, "ask_follow_up"),
                                     !.state = ask_follow_up(@, answer)] >>
    /\ UNCHANGED <<loop, llm_available, call, ret>>

\* ChatService counts the processed follow-up as well; chat.py does not.
ProcessFollowUp ==
    /\ AtStep("process_follow_up")
    /\ LET s == runs[1].state
           found == VibeQueryTable[LastUserQuery(s)][call[1].order]
           merged == [k \in DOMAIN s.attributes \cup DOMAIN found |->
                         IF k \in DOMAIN s.attributes /\ k \in DOMAIN found
                         THEN ListOfSet(s.attributes[k] \o found[k], call[1].order)
                         ELSE IF k \in DOMAIN found THEN found[k]
                         ELSE s.attributes[k]]
           count == IF call[1].flow = "chat_service" THEN s.follow_up_count + 1
                    ELSE s.follow_up_count
       IN  runs' = << [runs[1] EXCEPT
                         !.steps = Append(@, "process_follow_up"),
                         !.state = [s EXCEPT
                             !.attributes = merged,
                             !.follow_up_count = count,
                             !.current_step =
                                 IF count < 2 /\ Cardinality(DOMAIN merged) < 3
                                 THEN "ask_follow_up"
                                 ELSE "generate_recommendations"]] >>
    /\ UNCHANGED <<loop, llm_available, call, ret>>

\* ChatService recommends one mock product; chat.py filters the catalog.
GenerateRecommendations ==
    /\ AtStep("generate_recommendations")
    /\ \E answer \in Answers :
        \E found \in { IF call[1].flow = "chat_service" THEN <<>>
                        ELSE filter_products(
                                 [k \in DOMAIN runs[1].state.attributes |->
                                     << FilterValue(TRUE, runs[1].state.attributes[k]) >>],
                                 3) } :
          LET s == runs[1].state
              recommendations ==
                  IF call[1].flow = "chat_service" THEN << "mock-1" >>
                  ELSE [i \in 1..Len(found) |-> found[i].id]
          IN  runs' = << [runs[1] EXCEPT
                            !.steps = Append(@, "generate_recommendations"),
                            !.state = [s EXCEPT
                                !.recommendations = recommendations,
                                !.messages = Append(@, PlainTurn("assistant",
                                                         call_llm(s.messages, answer))),
                                !.current_step = "END"]] >>
    /\ UNCHANGED <<loop, llm_available, call, ret>>

\* process_chat_message returns the last assistant turn and the
\* recommendations, or its error response when the graph raised.
FollowUpReturn ==
    /\ runs[1].result = <<>>
    /\ runs[1].raised \/ runs[1].state.current_step = "END"
    /\ LET s == runs[1].state
       IN  runs' = << [runs[1] EXCEPT !.result =
                         IF runs[1].raised
                         THEN << [response |-> RequestErrorText, recommendations |-> <<>>] >>
                         ELSE << [response |-> s.messages[Len(s.messages)].content,
                                  recommendations |-> s.recommendations] >>] >>
    /\ UNCHANGED <<loop, llm_available, call, ret>>

NextFollowUp ==
    \/ ProcessInitialQuery
    \/ AskFollowUp
    \/ ProcessFollowUp
    \/ GenerateRecommendations
    \/ FollowUpReturn

SpecFollowUp == InitFollowUp /\ [][NextFollowUp]_vars

\* The invocations of ChatService's flow, and the flow as ainvoke runs it:
\* the graph executes the node
\* current_step names as long as there is one, every node returns (call_llm
\* catches a failing LLM call and answers with its mock response), and
\* process_chat_message returns once the graph has ended.
InitChatService ==
    /\ InitFollowUp
    /\ call[1].flow = "chat_service"

SpecFollowUpFair == InitChatService /\ [][NextFollowUp]_vars /\ WF_vars(NextFollowUp)

(***************************************************************************)
(* agent_node: the request sent to the LLM                                 *)
(***************************************************************************)
\* The first line of the default system_instruction of agent_node; the
\* rest of its text is elided.
DefaultSystemInstruction == "You are a fashion-savvy shopping assistant"

GeminiMessage_unknown_as_user(msg) ==
    IF msg.role = "system" THEN <<>>
    ELSE IF msg.role = "assistant"
    THEN << [role |-> "model",
             parts |-> << IF Truthy(msg.content) THEN msg.content ELSE EmptyAssistantText >>] >>
    ELSE IF msg.role = "tool"
    THEN << [role |-> "model",
             parts |-> << "I used the " \o (IF msg.name = NoKey THEN "tool" ELSE msg.name)
                          \o " and got: " \o msg.content >>] >>
    ELSE << [role |-> "user", parts |-> << msg.content >>] >>

\* One pass of the conversion loop: what a turn adds to gemini_messages.
GeminiMessage(msg) ==
    IF msg.role = "user"
    THEN << [role |-> "user", parts |-> << msg.content >>] >>
    ELSE IF msg.role = "assistant"
    THEN << [role |-> "model",
             parts |-> << IF Truthy(msg.content) THEN msg.content ELSE EmptyAssistantText >>] >>
    ELSE IF msg.role = "tool"
    THEN << [role |-> "model",
             parts |-> << "I used the " \o (IF msg.name = NoKey THEN "tool" ELSE msg.name)
                          \o " and got: " \o msg.content >>] >>
    ELSE <<>>

\* gemini_messages as passed to generate_content_async: the converted
\* turns, with the system instruction (the content of the last system turn,
\* or the default) prepended to the first entry when that entry is a user
\* message.
GeminiMessages(msgs) ==
    LET RECURSIVE Converted(_)
        Converted(todo) ==
            IF todo = <<>> THEN <<>>
            ELSE GeminiMessage(Head(todo)) \o Converted(Tail(todo))
        system == { i \in 1..Len(msgs) : msgs[i].role = "system" }
        system_instruction ==
            IF system = {} THEN DefaultSystemInstruction
            ELSE msgs[CHOOSE i \in system : \A j \in system : j <= i].content
        gemini_messages == Converted(msgs)
    IN  IF Truthy(system_instruction) /\ gemini_messages # <<>>
           /\ gemini_messages[1].role = "user"
        THEN [gemini_messages EXCEPT ![1].parts =
                 << system_instruction \o "\n\nUser: " \o gemini_messages[1].parts[1] >>]
        ELSE gemini_messages

(***************************************************************************)
(* One REASON step over a range of histories                               *)
(***************************************************************************)
MaxConvertHistory == 3

\* The histories: turns of the four roles, a tool turn without a name, and
\* a turn with a role that is none of them.
ConvertHistories ==
    SeqsUpTo({ PlainTurn("user", "hello"),
               PlainTurn("assistant", "hi"),
               PlainTurn("system", "be brief"),
               Turn("tool", "{count: 2}", <<>>, "find_apparels", "tool_call_1"),
               Turn("tool", "{count: 0}", <<>>, NoKey, NoKey),
               PlainTurn("moderator", "note") },
             MaxConvertHistory)

InitConvert ==
    /\ LoopIdle("convert")
    /\ llm_available \in BOOLEAN
    /\ runs = <<>>
    /\ call \in { << h >> : h \in ConvertHistories }
    /\ ret = <<>>

\* agent_node on a fresh state holding the history: what it sent to the
\* LLM (nothing when there is no LLM) and the state it returned.
SendToLLM ==
    /\ ret = <<>>
    /\ \E resp \in LLMResponses(1) :
          ret' = << [sent |-> IF llm_available THEN << GeminiMessages(call[1]) >> ELSE <<>>,
                     state |-> agent_node(State(call[1], NoTool, <<>>, None),
                                          llm_available, resp)] >>
    /\ UNCHANGED <<loop, llm_available, runs, call>>

NextConvert == SendToLLM

SpecConvert == InitConvert /\ [][NextConvert]_vars

(***************************************************************************)
(* Properties                                                              *)
(***************************************************************************)
LastStep == steps[Len(steps)]

AgentSteps == { i \in 1..Len(steps) : steps[i].node = "agent_node" }

EventsOfType(types) == { i \in 1..Len(events) : events[i].type \in types }

ContentEventTypes == { "message", "message_chunk", "message_complete" }

ApologyTexts == { GenerationErrorText, RequestErrorText }

\* C1: a run executes tool_node at most 3 times, and the log of tool
\* invocations never holds more than 3 records.
C1_AtMostThreeActs ==
    /\ CountNode("tool_node") <= 3
    /\ Len(last_tool_outputs) <= 3

\* C1 witness: a finished run in which every REASON requested a registered
\* tool and three ACT steps were executed.
C1_Witness ==
    /\ pc = "returned"
    /\ CountNode("tool_node") = 3
    /\ Len(last_tool_outputs) = 3
    /\ \A i \in AgentSteps : steps[i].outcome = "tool_call"

\* C2: process() never raises and always terminates: a returned result is
\* structured (response text, tool_outputs list, error None or text), a run
\* that has not returned can always take its next step, and no run takes
\* more than 4 REASON and 3 ACT steps.
C2_ProcessAlwaysReturnsStructured ==
    /\ (pc = "returned" /\ ~streaming) =>
          /\ ~result.raised
          /\ result.response # None
          /\ Len(result.tool_outputs) <= 3
          /\ result.error \in { None, error, "KeyError: role",
                                "TypeError: NoneType is not subscriptable" }
    /\ (pc # "returned") => ENABLED Next
    /\ Len(steps) <= 7

\* C2 witness: process() has returned from a run in which the LLM call
\* raised after a tool had raised.
C2_Witness ==
    /\ pc = "returned"
    /\ ~streaming
    /\ ~result.raised
    /\ \E i \in 1..Len(steps) : steps[i] = Step("tool_node", "raised", "")
    /\ LastStep = Step("agent_node", "llm_error", "")

\* C3 (as claimed): whenever a REASON step raised (the LLM call or the
\* preparation of the request), the apology turn is appended, error is set,
\* the run ends, and the result of process() carries a non-null error.
C3_ReasonExceptionSetsError ==
    (steps # <<>> /\ LastStep.node = "agent_node"
       /\ LastStep.outcome \in { "llm_error", "request_error" }) =>
        /\ messages[Len(messages)].role = "assistant"
        /\ messages[Len(messages)].content \in ApologyTexts
        /\ Truthy(error)
        /\ pc \in { "END", "returned" }
        /\ (pc = "returned" /\ ~streaming) => Truthy(result.error)

\* C4: a stream holds at most one completion event, nothing follows it, and
\* a finished streaming run holds exactly one (so every error event of the
\* run precedes it).
C4_OneCompletionLast ==
    /\ Cardinality(EventsOfType({ "completion" })) <= 1
    /\ \A i \in EventsOfType({ "completion" }) : i = Len(events)
    /\ (pc = "returned" /\ streaming) => Cardinality(EventsOfType({ "completion" })) = 1

\* C4 witness: a finished streaming run that emitted an error event and
\* ends with the completion event.
C4_Witness ==
    /\ pc = "returned"
    /\ streaming
    /\ EventsOfType({ "error" }) # {}
    /\ events[Len(events)].type = "completion"

\* C5 (as claimed): no content event follows an error event in a stream.
C5_NoContentAfterError ==
    \A i, j \in 1..Len(events) :
        (i < j /\ events[i].type = "error") => events[j].type \notin ContentEventTypes

\* C6 (as claimed): right after an ACT step that did not find the requested
\* tool, the conversation ends with an error tool turn, error is unset and
\* the run is back at REASON.
C6_ToolNotFoundIsToolTurn ==
    (steps # <<>> /\ LastStep = Step("tool_node", "not_found", "")) =>
        /\ messages[Len(messages)].role = "tool"
        /\ ~Truthy(error)
        /\ pc = "agent_node"

\* C7: an ACT step whose tool raised appends the failure as a tool turn and
\* as an invocation record, clears current_tool, leaves error unset and
\* hands over to agent_node; nothing else changes.
C7_ToolExceptionContained ==
    [][ (pc = "tool_node" /\ current_tool.name \in get_tools
           /\ steps' = Append(steps, Step("tool_node", "raised", ""))) =>
          /\ messages' = Append(messages,
                                Turn("tool", "Error executing tool: timeout", <<>>,
                                     current_tool.name, current_tool.id))
          /\ last_tool_outputs' = Append(last_tool_outputs,
                                         [tool |-> current_tool.name,
                                          args |-> current_tool.args,
                                          result |-> "Error executing tool: timeout"])
          /\ current_tool' = NoTool
          /\ error' = None
          /\ pc' = "agent_node" ]_vars

\* C7 witness: the state right after an ACT step whose tool raised.
C7_Witness ==
    /\ steps # <<>>
    /\ LastStep = Step("tool_node", "raised", "")
    /\ pc = "agent_node"
    /\ messages[Len(messages)].content = "Error executing tool: timeout"

\* C8 (as claimed): the response returned by process() is never empty.
C8_ResponseNonEmpty ==
    (pc = "returned" /\ ~streaming) => Truthy(result.response)

\* C9 (as claimed): when the run ends at the ceiling with a tool call still
\* pending, the response is the text of the last REASON, or the fallback
\* text when that REASON produced none.
C9_CeilingResponse ==
    (pc = "returned" /\ ~streaming /\ current_tool # NoTool
       /\ Len(last_tool_outputs) = 3 /\ ~Truthy(error)) =>
        result.response = IF LastStep.text # "" THEN LastStep.text ELSE FallbackText

\* C10: when the first REASON returns plain text, the run consists of that
\* single REASON, no ACT, and process() returns no tool outputs.
C10_PlainTextEndsRun ==
    (steps # <<>> /\ steps[1].outcome = "text") =>
        /\ Len(steps) = 1
        /\ CountNode("tool_node") = 0
        /\ pc \in { "END", "returned" }
        /\ last_tool_outputs = <<>>
        /\ (pc = "returned" /\ ~streaming) => result.tool_outputs = <<>>

\* C10 witness: process() has returned from a run whose first REASON
\* answered in plain text.
C10_Witness ==
    /\ pc = "returned"
    /\ ~streaming
    /\ steps[1] = Step("agent_node", "text", "reply 1")
    /\ result.tool_outputs = <<>>

\* The tool calls the run dispatched, in order: the first call of every
\* assistant turn that carries tool calls.
Dispatched ==
    LET RECURSIVE Calls(_)
        Calls(msgs) ==
            IF msgs = <<>> THEN <<>>
            ELSE IF Head(msgs).role = "assistant" /\ Head(msgs).tool_calls # <<>>
            THEN << Head(msgs).tool_calls[1] >> \o Calls(Tail(msgs))
            ELSE Calls(Tail(msgs))
    IN  Calls(messages)

\* A returned synchronous run of k >= 1 REASON steps that each requested a
\* registered tool, followed by one REASON that answered in plain text.
ToolsThenText ==
    /\ pc = "returned"
    /\ ~streaming
    /\ Len(steps) >= 3
    /\ LastStep.node = "agent_node"
    /\ LastStep.outcome = "text"
    /\ \A i \in AgentSteps \ { Len(steps) } : steps[i].outcome = "tool_call"
    /\ \A i \in 1..Len(steps) :
          steps[i].node = "tool_node" => steps[i].outcome \in { "ok", "raised" }

\* C11: when the first k REASON steps (1 <= k <= 3) each request a
\* registered tool and the next one answers in plain text, process() returns
\* exactly k invocation records, the i-th being the record of the i-th
\* dispatched call, and its response is the text of the last REASON.
C11_KToolsThenText ==
    ToolsThenText =>
        LET k == Cardinality(AgentSteps) - 1
        IN  /\ k \in 1..3
            /\ CountNode("tool_node") = k
            /\ Len(result.tool_outputs) = k
            /\ Len(Dispatched) = k
            /\ \A i \in 1..k :
                  /\ result.tool_outputs[i].tool = Dispatched[i].name
                  /\ result.tool_outputs[i].args = Dispatched[i].args
            /\ result.response = LastStep.text
            /\ result.error = None

\* C11 witness: two different tools were dispatched, then the third REASON
\* answered in plain text, and process() has returned.
C11_Witness ==
    /\ ToolsThenText
    /\ Len(result.tool_outputs) = 2
    /\ result.tool_outputs[1].tool = "get_apparel_details"
    /\ result.tool_outputs[2].tool = "find_apparels"
    /\ result.response = "reply 3"

\* C12: an ACT step whose tool (search or details) met an unavailable store
\* (no client, or a query that raises) gets a payload with success = false
\* from the tool, which did not raise; the payload is appended as an
\* ordinary tool turn and invocation record, error stays unset and the run
\* goes on to the next REASON.
C12_StoreUnavailableIsToolResult ==
    [][ (pc = "tool_node" /\ current_tool.name \in get_tools /\ steps' # steps
           /\ call'[1].store \in UnavailableStores) =>
          /\ ~ret'[1].raised
          /\ ret'[1].result.success = FALSE
          /\ steps' = Append(steps, Step("tool_node", "ok", ""))
          /\ messages' = Append(messages,
                                Turn("tool", Render(ret'[1].result), <<>>,
                                     current_tool.name, current_tool.id))
          /\ last_tool_outputs' = Append(last_tool_outputs,
                                         [tool |-> current_tool.name,
                                          args |-> current_tool.args,
                                          result |-> Render(ret'[1].result)])
          /\ current_tool' = NoTool
          /\ error' = None
          /\ pc' = "agent_node" ]_vars

\* C12 witness: the search tool met a store whose query raised, and the
\* REASON after that ACT answered in plain text.
C12_Witness ==
    /\ Len(steps) = 3
    /\ steps[2] = Step("tool_node", "ok", "")
    /\ LastStep = Step("agent_node", "text", "reply 2")
    /\ call # <<>>
    /\ call[1].tool = "find_apparels"
    /\ call[1].store = "search_raises"
    /\ ~ret[1].result.success
    /\ error = None

\* A call of find_apparels has returned.
SearchReturned == ret # <<>> /\ call[1].tool = "find_apparels"

\* The queries of a returned call that carry order() and limit().
Searches == { i \in 1..Len(ret[1].sent) : ret[1].sent[i].order # None }

\* C19: when the size passed to find_apparels is non-empty and, trimmed and
\* upper-cased, is not a valid size, the tool does not raise, no query it
\* sends holds a size condition, size is absent from filters_applied, and
\* what it sends and returns is what the same call without a size sends and
\* returns.
C19_InvalidSizeDropped ==
    (SearchReturned /\ Truthy(call[1].args.size)
       /\ ~InList(strip(upper(call[1].args.size)), VALID_SIZES)) =>
        /\ ~ret[1].raised
        /\ ret[1].result.success = (call[1].store \notin UnavailableStores)
        /\ \A i \in 1..Len(ret[1].sent) : \A j \in 1..Len(ret[1].sent[i].query) :
              ret[1].sent[i].query[j].field # "available_sizes"
        /\ ret[1].result.filters_applied["size"] = <<>>
        /\ ret[1] = find_apparels([call[1].args EXCEPT !.size = None], call[1].store)

\* C19 witness: a search for category "Dress" in size "sm" found rows; the
\* category filter was applied and the size was not.
C19_Witness ==
    /\ SearchReturned
    /\ call[1].args.size = "sm"
    /\ call[1].args.category = "Dress"
    /\ call[1].store = "rows"
    /\ ret[1].result.success
    /\ ret[1].result.filters_applied["category"] = << AppliedText(FALSE, << "dress" >>) >>
    /\ ret[1].result.filters_applied["size"] = <<>>

\* C20: whatever limit and sort field find_apparels is called with, every
\* search it sends carries a limit between 1 and 100 and orders by a field
\* of the allow-list: the requested field when that is allowed, "name"
\* otherwise.
C20_LimitAndSortClamped ==
    SearchReturned =>
        \A i \in Searches :
            /\ ret[1].sent[i].limit \in 1..100
            /\ ret[1].sent[i].order \in { "name", "price", "id" }
            /\ ret[1].sent[i].order =
                  IF call[1].args.sort_by \in { "name", "price", "id" }
                  THEN call[1].args.sort_by ELSE "name"

\* C20 witness: a search called with limit -3 and sort field "rating" was
\* sent with limit 1, ordered by name.
C20_Witness ==
    /\ SearchReturned
    /\ call[1].args.limit = Int1(-3)
    /\ call[1].args.sort_by = "rating"
    /\ Searches # {}
    /\ \A i \in Searches : ret[1].sent[i].limit = 1 /\ ret[1].sent[i].order = "name"

\* The position of a product in the catalog.
CatalogIndex(product) == CHOOSE i \in 1..Len(MOCK_PRODUCTS) : MOCK_PRODUCTS[i] = product

Returned_products == { ret[1][i] : i \in 1..Len(ret[1]) }

\* C15: whatever the limit, no product whose match score is 0 for the query
\* (none of the queried fields, or none satisfied) is in the result of
\* filter_products.
C15_ZeroScoreExcluded ==
    ret # <<>> =>
        \A i \in 1..Len(MOCK_PRODUCTS) :
            match_score(MOCK_PRODUCTS[i], call[1].filters) = 0 =>
                MOCK_PRODUCTS[i] \notin Returned_products

\* C15 witness: a query on pattern and on a key no product has returned the
\* three products of pattern Solid and none of the two others.
C15_Witness ==
    /\ ret # <<>>
    /\ HasKey(call[1].filters, "size")
    /\ call[1].filters["pattern"] = << FilterValue(TRUE, << "solid" >>) >>
    /\ call[1].limit = MaxLimit
    /\ { p.id : p \in Returned_products } = { "J002", "B005", "S003" }

\* C16: the result of filter_products is in non-increasing order of match
\* percentage, and of two products of equal percentage the one that comes
\* first in the catalog comes first in the result.
C16_SortedStable ==
    ret # <<>> =>
        \A i, j \in 1..Len(ret[1]) :
            i < j =>
                LET a == Entry(ret[1][i], call[1].filters)
                    b == Entry(ret[1][j], call[1].filters)
                IN  /\ PercentageGE(a, b)
                    /\ PercentageGE(b, a) => CatalogIndex(ret[1][i]) < CatalogIndex(ret[1][j])

\* C16 witness: a result that holds a product of percentage 1 followed by
\* two products of one smaller, equal percentage, in catalog order.
C16_Witness ==
    /\ ret # <<>>
    /\ Len(ret[1]) >= 3
    /\ LET a == Entry(ret[1][1], call[1].filters)
           b == Entry(ret[1][2], call[1].filters)
           c == Entry(ret[1][3], call[1].filters)
       IN  /\ a.score = a.possible
           /\ ~PercentageGE(b, a)
           /\ PercentageGE(b, c) /\ PercentageGE(c, b)
           /\ CatalogIndex(ret[1][2]) < CatalogIndex(ret[1][3])

\* C17 (as claimed): for every query and every limit, filter_products
\* returns at most limit products (none when limit is below 1).
C17_AtMostLimit ==
    ret # <<>> => Len(ret[1]) <= Max(call[1].limit, 0)

Elements(xs) == { xs[i] : i \in 1..Len(xs) }

\* The same keys and, per key, the same set of values.
SameAttributeQuery(a, b) ==
    /\ DOMAIN a = DOMAIN b
    /\ \A k \in DOMAIN a : Elements(a[k]) = Elements(b[k])

\* The lists obtained from xs by reordering it or by repeating some of it.
Rearranged(xs) ==
    { [i \in 1..Len(xs) |-> xs[p[i]]] : p \in Permutations(1..Len(xs)) }
    \cup { Append(xs, xs[i]) : i \in 1..Len(xs) }
    \cup { xs \o xs }

\* C18: the attributes mapped from a list of vibe terms (passed directly,
\* or extracted from the words of a query) have the same keys and per key
\* the same set of values as those mapped from any reordering of the list
\* and from the list with terms repeated, whatever order list(set()) yields.
C18_TermOrderIrrelevant ==
    ret # <<>> =>
        \A other \in Rearranged(call[1].words) : \A order \in SetOrders :
            SameAttributeQuery(
                ret[1],
                IF call[1].fn = "map_vibe_to_attributes"
                THEN map_vibe_to_attributes(other, order)
                ELSE map_vibe_query(join(other, " "), order).attributes)

\* C18 witness: the terms cute, casual, cute were mapped; occasion holds the
\* five distinct values of the two terms, which share "casual outing".
C18_Witness ==
    /\ ret # <<>>
    /\ call[1].fn = "map_vibe_to_attributes"
    /\ call[1].words = << "cute", "casual", "cute" >>
    /\ Len(ret[1]["occasion"]) = 5
    /\ Elements(ret[1]["occasion"])
         = { "date", "casual outing", "brunch", "everyday", "weekend" }
    /\ DOMAIN ret[1] = { "style", "fabric", "fit", "pattern", "color", "occasion" }

Alone(r) ==
    Replay(StartRun(runs[r].history, runs[r].streaming), runs[r].inputs, llm_available)

C22_TurnsAppendOnly ==
    [][ /\ Len(messages') >= Len(messages)
        /\ \A i \in 1..Len(messages) :
              /\ messages'[i].role = messages[i].role
              /\ messages'[i].content = messages[i].content ]_vars

\* C23: every REASON step is followed by the route the priority rule gives
\* for the state it produced: END when error is set, even with a tool call
\* pending; else tool_node when a tool call is pending and fewer than 3
\* invocations are logged; else END. Every ACT step hands over to
\* agent_node.
C23_RouterPriority ==
    [][ /\ (pc = "agent_node") =>
              pc' = IF Truthy(error') THEN "END"
                    ELSE IF current_tool' # NoTool /\ Len(last_tool_outputs') < 3
                    THEN "tool_node"
                    ELSE "END"
        /\ (pc = "tool_node") => pc' = "agent_node" ]_vars

\* C23 witness: a REASON step requested a tool while error was set (by the
\* ACT step before it, which did not find its tool), and the run ended.
C23_Witness ==
    /\ pc = "END"
    /\ Truthy(error)
    /\ current_tool # NoTool
    /\ Len(last_tool_outputs) < 3
    /\ LastStep.node = "agent_node"
    /\ LastStep.outcome = "tool_call"

\* C24 (as claimed): current_tool is set only between the REASON step that
\* requested the tool and the ACT step that dispatches it (the last step is
\* that REASON and the next node is tool_node), and it is unset after every
\* ACT step.
C24_PendingOnlyUntilDispatch ==
    /\ (current_tool # NoTool) =>
          /\ steps # <<>>
          /\ LastStep.node = "agent_node"
          /\ LastStep.outcome = "tool_call"
          /\ pc = "tool_node"
    /\ (steps # <<>> /\ LastStep.node = "tool_node") => current_tool = NoTool

\* C26: when process() returns from a run that ended with a tool call
\* pending and 3 invocations logged, and no REASON step of the run raised,
\* the error of the result is None.
C26_CeilingIsNotAFault ==
    (pc = "returned" /\ ~streaming /\ current_tool # NoTool
       /\ Len(last_tool_outputs) = 3
       /\ \A i \in AgentSteps : steps[i].outcome \notin { "llm_error", "request_error" }) =>
        /\ result.error = None
        /\ ~result.raised
        /\ Len(result.tool_outputs) = 3

\* C26 witness: process() has returned from a run of three ACT steps whose
\* fourth REASON requested a tool again.
C26_Witness ==
    /\ pc = "returned"
    /\ ~streaming
    /\ CountNode("tool_node") = 3
    /\ Len(steps) = 7
    /\ LastStep.outcome = "tool_call"
    /\ current_tool # NoTool
    /\ result.error = None

\* C30: an ACT step that does not find its tool is followed by exactly one
\* REASON step, after which the run ends with error set (and process()
\* returns that error) whatever the REASON produced; error, once set, stays
\* set, and no ACT step runs while it is set.
C30_ToolNotFoundEndsRun ==
    /\ [](\A i \in 1..Len(steps) :
            steps[i] = Step("tool_node", "not_found", "") =>
               /\ Len(steps) <= i + 1
               /\ (Len(steps) = i) => (pc = "agent_node" /\ Truthy(error))
               /\ (Len(steps) = i + 1) =>
                     /\ steps[i + 1].node = "agent_node"
                     /\ pc \in { "END", "returned" }
                     /\ Truthy(error)
                     /\ (pc = "returned" /\ ~streaming) => Truthy(result.error))
    /\ [][ Truthy(error) => (Truthy(error') /\ pc' # "tool_node"
                             /\ CountNode("tool_node")' = CountNode("tool_node")) ]_vars

\* C30 witness: the REASON step after a tool that was not found requested a
\* tool again, and process() returned the error.
C30_Witness ==
    /\ pc = "returned"
    /\ ~streaming
    /\ Len(steps) = 3
    /\ steps[2] = Step("tool_node", "not_found", "")
    /\ steps[3].outcome = "tool_call"
    /\ current_tool # NoTool
    /\ Truthy(result.error)

C25_OnlyFirstCallDispatched ==
    [][ /\ (pc = "agent_node" /\ steps'[Len(steps')].outcome = "tool_call") =>
              LET turn == messages'[Len(messages')]
              IN  /\ turn.role = "assistant"
                  /\ turn.tool_calls # <<>>
                  /\ current_tool' = turn.tool_calls[1]
                  /\ \E resp \in LLMResponses(CountNode("agent_node") + 1) :
                        /\ ~resp.raises
                        /\ ParseParts(resp.parts, "", <<>>)
                             = [text |-> turn.content, tool_calls |-> turn.tool_calls]
        /\ (pc = "tool_node") =>
              /\ pc' = "agent_node"
              /\ current_tool' = NoTool
              /\ Len(last_tool_outputs') <= Len(last_tool_outputs) + 1
              /\ Len(last_tool_outputs') = Len(last_tool_outputs) + 1 =>
                    /\ last_tool_outputs'[Len(last_tool_outputs')].tool = current_tool.name
                    /\ last_tool_outputs'[Len(last_tool_outputs')].args = current_tool.args
       ]_vars

\* C25 witness: the first REASON requested get_apparel_details and
\* find_apparels in one response, only get_apparel_details was dispatched,
\* the second REASON answered in text, and process() has returned.
C25_Witness ==
    /\ pc = "returned"
    /\ ~streaming
    /\ Len(steps) = 3
    /\ \E i \in 1..Len(messages) :
          /\ Len(messages[i].tool_calls) = 2
          /\ messages[i].tool_calls[2].name = "find_apparels"
    /\ Len(result.tool_outputs) = 1
    /\ result.tool_outputs[1].tool = "get_apparel_details"
    /\ LastStep.outcome = "text"

\* The turns of the history with one of the given roles, in order.
TurnsWithRole(roles) == SelectSeq(call[1], LAMBDA m : m.role \in roles)

\* C27 (as claimed): whenever the history holds a system turn and a user
\* turn and a request is sent to the LLM, the first user message of the
\* request is the system instruction followed by the content of the first
\* user turn, wherever that turn stands in the history.
C27_SystemMergedIntoFirstUser ==
    (ret # <<>> /\ ret[1].sent # <<>>
       /\ TurnsWithRole({ "system" }) # <<>> /\ TurnsWithRole({ "user" }) # <<>>) =>
        LET sent == ret[1].sent[1]
            users == { i \in 1..Len(sent) : sent[i].role = "user" }
            first == CHOOSE i \in users : \A j \in users : i <= j
            system == TurnsWithRole({ "system" })
        IN  /\ users # {}
            /\ sent[first].parts
                 = << system[Len(system)].content \o "\n\nUser: "
                      \o TurnsWithRole({ "user" })[1].content >>

\* C28: the request sent to the LLM holds one message for every turn of the
\* history whose role is user, assistant or tool, in the order of the
\* history, and none for a turn with another role (system turns are merged,
\* other roles skipped); it is the request the history without its
\* unknown-role turns would give, and the step leaves error unset.
C28_UnknownRoleSkipped ==
    (ret # <<>> /\ ret[1].sent # <<>>) =>
        LET sent == ret[1].sent[1]
            known == TurnsWithRole({ "user", "assistant", "tool" })
        IN  /\ Len(sent) = Len(known)
            /\ \A i \in 1..Len(sent) :
                  /\ sent[i].role = (IF known[i].role = "user" THEN "user" ELSE "model")
                  /\ Contains(known[i].content, sent[i].parts[1])
            /\ sent = GeminiMessages(TurnsWithRole({ "user", "assistant", "tool", "system" }))
            /\ ret[1].state.error = None
            /\ Len(ret[1].state.messages) = Len(call[1]) + 1

\* C28 witness: a history with an unknown-role turn between a user turn and
\* an assistant turn was sent as two messages, and the LLM's text answer was
\* appended.
C28_Witness ==
    /\ ret # <<>>
    /\ ret[1].sent # <<>>
    /\ call[1] = << PlainTurn("user", "hello"), PlainTurn("moderator", "note"),
                    PlainTurn("assistant", "hi") >>
    /\ Len(ret[1].sent[1]) = 2
    /\ ret[1].state.messages[4].content = "reply 1"
    /\ ret[1].state.error = None

\* How often the follow-up run executed a node.
FollowUpCount(node) ==
    Cardinality({ i \in 1..Len(runs[1].steps) : runs[1].steps[i] = node })

AppendedTurns == SubSeq(messages', Len(messages) + 1, Len(messages'))

YieldedContent ==
    SelectSeq(SubSeq(events', Len(events) + 1, Len(events')),
              LAMBDA e : e.type \in { "message", "tool_output" })

\* C31 (as claimed): in a streaming run, a step that appended an assistant
\* turn yields at most one message event, carrying that turn's content; a
\* step that appended a tool turn yields exactly one tool_output event,
\* carrying that turn's content; a step that appended no turn yields no
\* message and no tool_output event. Every turn is thus emitted at most
\* once, tool turns exactly once, in the order of appending.
C31_EachTurnEmittedOnce ==
    [][ streaming =>
          /\ Len(AppendedTurns) <= 1
          /\ (AppendedTurns = <<>>) => YieldedContent = <<>>
          /\ (AppendedTurns # <<>> /\ AppendedTurns[1].role = "tool") =>
                YieldedContent = << Event("tool_output", AppendedTurns[1].content,
                                          "tool_node") >>
          /\ (AppendedTurns # <<>> /\ AppendedTurns[1].role = "assistant") =>
                \/ YieldedContent = <<>>
                \/ YieldedContent = << Event("message", AppendedTurns[1].content,
                                             "agent_node") >> ]_vars

ToolTurns == { i \in 1..Len(messages) : messages[i].role = "tool" }

\* C33: in every state the tool turns appended by the run are as many as
\* the entries of last_tool_outputs, and each of them directly follows an
\* assistant turn that requested tools and carries the id and the name of
\* the first tool call of that turn.
C33_ToolTurnFollowsItsRequest ==
    /\ Cardinality(ToolTurns) = Len(last_tool_outputs)
    /\ \A i \in ToolTurns :
          /\ i > 1
          /\ messages[i - 1].role = "assistant"
          /\ messages[i - 1].tool_calls # <<>>
          /\ messages[i].tool_call_id = messages[i - 1].tool_calls[1].id
          /\ messages[i].name = messages[i - 1].tool_calls[1].name

\* C33 witness: three tool turns have been appended, one of them after an
\* assistant turn that requested two tools.
C33_Witness ==
    /\ Len(last_tool_outputs) = 3
    /\ Cardinality(ToolTurns) = 3
    /\ \E i \in ToolTurns :
          /\ Len(messages[i - 1].tool_calls) = 2
          /\ messages[i].name = "get_apparel_details"
          /\ messages[i].tool_call_id = "tool_call_1"

\* C34: when the run has ended, current_tool is set only if three
\* invocations are logged or error is set; a run that ended with fewer than
\* three invocations and without error has no tool call pending.
C34_PendingAtEndOnlyAtCeilingOrError ==
    (pc \in { "END", "returned" }) =>
        /\ (current_tool # NoTool) =>
              (Len(last_tool_outputs) = 3 \/ Truthy(error))
        /\ (Len(last_tool_outputs) < 3 /\ ~Truthy(error)) => current_tool = NoTool

\* C34 witness: the run ended with a tool call pending because error was
\* set, after two invocations.
C34_Witness ==
    /\ pc = "END"
    /\ current_tool # NoTool
    /\ Truthy(error)
    /\ Len(last_tool_outputs) = 2

\* C35: an ACT step that does not find its tool leaves messages and
\* last_tool_outputs as they were, sets error and leaves current_tool None;
\* and tool_node applied to any reachable state without a pending tool
\* returns that state with only error changed (set), current_tool still
\* None.
C35_FailedDispatchOnlySetsError ==
    /\ [][ (pc = "tool_node" /\ steps'[Len(steps')].outcome \in { "no_tool", "not_found" }) =>
              /\ messages' = messages
              /\ last_tool_outputs' = last_tool_outputs
              /\ Truthy(error')
              /\ current_tool' = NoTool ]_vars
    /\ [](\A behaviour \in ToolBehaviours :
            LET s == State(messages, NoTool, last_tool_outputs, error)
                after == tool_node(s, behaviour)
            IN  /\ after.messages = messages
                /\ after.last_tool_outputs = last_tool_outputs
                /\ Truthy(after.error)
                /\ after.current_tool = NoTool)

\* C35 witness: after one invocation was logged, an ACT step did not find
\* its tool; error is set, no tool is pending, and the log still holds one
\* entry.
C35_Witness ==
    /\ steps # <<>>
    /\ LastStep = Step("tool_node", "not_found", "")
    /\ Truthy(error)
    /\ current_tool = NoTool
    /\ Len(last_tool_outputs) = 1
    /\ messages[Len(messages)].role = "assistant"

(***************************************************************************)
(* The scoring law of the catalog filter                                   *)
(***************************************************************************)
\* The queried attributes the product has a field for, and those of them it
\* satisfies: a multi-valued field when a query value equals one of its
\* values, a single-valued text field when a query value is a substring of
\* it, both regardless of case.
ApplicableKeys(product, filters) ==
    { k \in DOMAIN filters : filters[k] # <<>> /\ k \in DOMAIN product }

SatisfiedKeys(product, filters) ==
    { k \in ApplicableKeys(product, filters) :
        \E i \in 1..Len(filters[k][1].values) :
            LET value == lower(filters[k][1].values[i])
            IN  IF k \in { "style", "occasion" }
                THEN \E j \in 1..Len(product[k]) : lower(product[k][j]) = value
                ELSE k # "price" /\ Contains(value, lower(product[k])) }

\* C36: for every product of the catalog and every query filter_products was
\* called with, the match percentage is satisfied / applicable, with
\* satisfied <= applicable, hence within [0, 1], and it is 0 for a product
\* with no applicable field.
C36_ScoreIsSatisfiedOverApplicable ==
    ret # <<>> =>
        \A i \in 1..Len(MOCK_PRODUCTS) :
            LET product == MOCK_PRODUCTS[i]
                satisfied == Cardinality(SatisfiedKeys(product, call[1].filters))
                applicable == Cardinality(ApplicableKeys(product, call[1].filters))
                percentage == match_percentage(Entry(product, call[1].filters))
            IN  /\ satisfied <= applicable
                /\ percentage[2] > 0
                /\ 0 <= percentage[1] /\ percentage[1] <= percentage[2]
                /\ (applicable > 0) =>
                      percentage[1] * applicable = satisfied * percentage[2]
                /\ (applicable = 0) => percentage[1] = 0

\* C36 witness: a query on pattern, style, the size key no product has and
\* the price key was answered; the first product satisfies two of its three
\* applicable attributes, the second one of them.
C36_Witness ==
    /\ ret # <<>>
    /\ HasKey(call[1].filters, "size")
    /\ HasKey(call[1].filters, "price")
    /\ ApplicableKeys(MOCK_PRODUCTS[1], call[1].filters) = { "pattern", "style", "price" }
    /\ SatisfiedKeys(MOCK_PRODUCTS[1], call[1].filters) = { "pattern", "style" }
    /\ match_percentage(Entry(MOCK_PRODUCTS[1], call[1].filters)) = << 2, 3 >>
    /\ SatisfiedKeys(MOCK_PRODUCTS[2], call[1].filters) = { "pattern" }
    /\ match_percentage(Entry(MOCK_PRODUCTS[2], call[1].filters)) = << 1, 3 >>

(***************************************************************************)
(* The attribute query of a list of vibe terms                             *)
(***************************************************************************)
\* The terms of the list that are in the vocabulary (regardless of case),
\* and the values they contribute to an attribute.
RecognizedTerms(terms) ==
    { lower(terms[i]) : i \in 1..Len(terms) } \cap DOMAIN VIBE_MAPPINGS

ContributedValues(terms, attr_key) ==
    UNION { Elements(VIBE_MAPPINGS[term][attr_key]) :
              term \in { t \in RecognizedTerms(terms) : attr_key \in DOMAIN VIBE_MAPPINGS[t] } }

\* C37: map_vibe_to_attributes returns, for every list of terms, exactly the
\* attributes to which a recognized term contributes; each holds the values
\* contributed by the recognized terms, every value once, and none is empty.
\* Terms outside the vocabulary contribute nothing, and a list of such terms
\* only yields the empty query.
C37_UnionOfRecognizedTerms ==
    (ret # <<>> /\ call[1].fn = "map_vibe_to_attributes") =>
        /\ DOMAIN ret[1] = { k \in DOMAIN EmptyAttributes :
                               ContributedValues(call[1].words, k) # {} }
        /\ \A k \in DOMAIN ret[1] :
              /\ Elements(ret[1][k]) = ContributedValues(call[1].words, k)
              /\ Len(ret[1][k]) = Cardinality(ContributedValues(call[1].words, k))
              /\ ret[1][k] # <<>>
        /\ (RecognizedTerms(call[1].words) = {}) => DOMAIN ret[1] = {}

\* C37 witness: the terms grunge, Boho, Boho were mapped; grunge is not in
\* the vocabulary, the repeated term contributes its three patterns once,
\* and color, to which boho contributes nothing, is not a key of the result.
C37_Witness ==
    /\ ret # <<>>
    /\ call[1].fn = "map_vibe_to_attributes"
    /\ call[1].words = << "grunge", "Boho", "Boho" >>
    /\ DOMAIN ret[1] = { "style", "pattern", "fabric", "fit", "occasion" }
    /\ Len(ret[1]["pattern"]) = 3
    /\ Elements(ret[1]["pattern"]) = { "paisley", "floral", "ethnic" }

(***************************************************************************)
(* The conditions find_apparels builds from its text and price filters     *)
(***************************************************************************)
\* text trimmed, lower-cased and looked up once in the synonym table.
SynonymOnce(text) ==
    LET plain == lower(strip(text))
    IN  IF \E m \in text_mappings : m[1] = plain
        THEN (CHOOSE m \in text_mappings : m[1] = plain)[2]
        ELSE plain

\* The non-empty parts of a value with separators, each trimmed, lower-cased
\* and looked up once.
RECURSIVE PartsOf(_)
PartsOf(pieces) ==
    IF pieces = <<>> THEN <<>>
    ELSE (IF strip(Head(pieces)) = "" THEN <<>> ELSE << SynonymOnce(Head(pieces)) >>)
         \o PartsOf(Tail(pieces))

\* The conditions expected on field for the value passed: none for an
\* absent or blank value, an OR of one partial match per part for a value
\* with separators that has several parts, one partial match otherwise.
ExpectedTextConditions(field, value) ==
    LET whole == SynonymOnce(value)
        parts == PartsOf(split(replace(whole, " and ", ","), ","))
        Partial(part) == Condition("ilike", field, "%" \o part \o "%", 0)
    IN  IF ~Truthy(value) \/ whole = "" THEN <<>>
        ELSE IF ~Contains(",", whole) /\ ~Contains(" and ", whole)
        THEN << Partial(whole) >>
        ELSE IF Len(parts) > 1
        THEN << Condition("or_", field,
                          join([i \in 1..Len(parts) |->
                                   field \o ".ilike.%" \o parts[i] \o "%"], ","),
                          0) >>
        ELSE IF Len(parts) = 1 THEN << Partial(parts[1]) >>
        ELSE <<>>

\* C38: in every search find_apparels sends, the conditions on each text
\* field are those of the value passed for it, trimmed, lower-cased and
\* looked up in the synonym table once ("jeans" gives "denim", never
\* "cotton"): one partial-match condition for a value without separator, and
\* for a value with "," or " and " an OR of one partial-match condition per
\* non-empty part, or a single condition when one part remains.
C38_TextFilterNormalizedOnce ==
    SearchReturned =>
        \A i \in Searches : \A f \in 1..Len(text_filters) :
            /\ SelectSeq(ret[1].sent[i].query, LAMBDA c : c.field = text_filters[f])
                 = ExpectedTextConditions(text_filters[f], call[1].args[text_filters[f]])
            /\ \A j \in 1..Len(ret[1].sent[i].query) :
                  (call[1].args[text_filters[f]] \in { " Jeans ", "jeans," }
                     /\ ret[1].sent[i].query[j].field = text_filters[f]) =>
                      ret[1].sent[i].query[j] =
                          Condition("ilike", text_filters[f], "%denim%", 0)

\* C38 witness: a search for category "jeans," and fit "slim fit and baggy"
\* was sent with the single partial match on "denim" for the category, of
\* which one part remains, and an OR of two partial matches for the fit.
C38_Witness ==
    /\ SearchReturned
    /\ Searches # {}
    /\ call[1].args.category = "jeans,"
    /\ call[1].args.fit = "slim fit and baggy"
    /\ \A i \in Searches :
          SubSeq(ret[1].sent[i].query, 1, 2) =
             << Condition("ilike", "category", "%denim%", 0),
                Condition("or_", "fit", "fit.ilike.%slim%,fit.ilike.%relaxed%", 0) >>

\* The bounds a search applies to price: the numbers of its gte (lower) and
\* lte (upper) conditions, in the order sent.
PriceBounds(search, op) ==
    LET conditions == SelectSeq(search.query, LAMBDA c : c.field = "price" /\ c.op = op)
    IN  [j \in 1..Len(conditions) |-> conditions[j].number]

\* C39: in every search find_apparels sends there is at most one lower and
\* one upper price bound, each applied bound is >= 0, and the lower is <=
\* the upper when both are applied. A negative min_price is applied as 0, a
\* negative max_price not at all, a pair with min_price > max_price (both
\* >= 0) is applied swapped, and any other bound as passed.
C39_PriceBoundsValid ==
    SearchReturned =>
        \A i \in Searches :
            LET lower_bound == PriceBounds(ret[1].sent[i], "gte")
                upper_bound == PriceBounds(ret[1].sent[i], "lte")
                min_price == call[1].args.min_price
                max_price == call[1].args.max_price
                inverted == /\ min_price # NoInt /\ max_price # NoInt
                            /\ max_price[1] >= 0 /\ min_price[1] > max_price[1]
            IN  /\ Len(lower_bound) <= 1 /\ Len(upper_bound) <= 1
                /\ \A j \in 1..Len(lower_bound) : lower_bound[j] >= 0
                /\ \A j \in 1..Len(upper_bound) : upper_bound[j] >= 0
                /\ (lower_bound # <<>> /\ upper_bound # <<>>) =>
                      lower_bound[1] <= upper_bound[1]
                /\ (min_price # NoInt /\ min_price[1] < 0) => lower_bound = << 0 >>
                /\ (max_price # NoInt /\ max_price[1] < 0) =>
                      /\ upper_bound = <<>>
                      /\ (min_price # NoInt /\ min_price[1] >= 0) => lower_bound = min_price
                /\ inverted => (lower_bound = max_price /\ upper_bound = min_price)
                /\ (~inverted /\ (max_price = NoInt \/ max_price[1] >= 0)) =>
                      /\ upper_bound = max_price
                      /\ (min_price = NoInt \/ min_price[1] >= 0) => lower_bound = min_price

\* C39 witness: a search called with min_price 30 and max_price 10 found
\* rows; it was sent with the bounds 10 and 30, which the result reports as
\* applied.
C39_Witness ==
    /\ SearchReturned
    /\ call[1].args.min_price = Int1(30)
    /\ call[1].args.max_price = Int1(10)
    /\ call[1].store = "rows"
    /\ \A i \in Searches :
          /\ PriceBounds(ret[1].sent[i], "gte") = << 10 >>
          /\ PriceBounds(ret[1].sent[i], "lte") = << 30 >>
    /\ Searches # {}
    /\ ret[1].result.filters_applied["min_price"] = Int1(10)
    /\ ret[1].result.filters_applied["max_price"] = Int1(30)

(***************************************************************************)
(* Termination of the follow-up flow                                       *)
(***************************************************************************)
\* C40: every run of ChatService's follow-up flow, whatever the history
\* (and so the attributes extracted) and whether the LLM answers or the mock
\* response stands in for it, executes at most 4 nodes, none of them raises,
\* generate_recommendations never runs twice and the flow ends only after
\* it; and every run does come to its end: generate_recommendations has run
\* exactly once, the graph is at END and process_chat_message has returned.
C40_FollowUpTerminates ==
    /\ [](call[1].flow = "chat_service" =>
            /\ Len(runs[1].steps) <= 4
            /\ ~runs[1].raised
            /\ FollowUpCount("generate_recommendations") <= 1
            /\ (runs[1].state.current_step = "END") =>
                  /\ FollowUpCount("generate_recommendations") = 1
                  /\ runs[1].steps[Len(runs[1].steps)] = "generate_recommendations")
    /\ (call[1].flow = "chat_service") ~>
          (/\ runs[1].result # <<>>
           /\ runs[1].state.current_step = "END"
           /\ FollowUpCount("generate_recommendations") = 1)

\* C40 witness: without an LLM, a run of ChatService's flow on a history
\* from which no attribute is extracted asked one follow-up question,
\* processed the follow-up, generated its recommendations and returned.
C40_Witness ==
    /\ call[1].flow = "chat_service"
    /\ ~llm_available
    /\ call[1].history = << PlainTurn("user", "a gift for my sister") >>
    /\ runs[1].steps = << "process_initial_query", "ask_follow_up", "process_follow_up",
                          "generate_recommendations" >>
    /\ runs[1].state.current_step = "END"
    /\ runs[1].result # <<>>

============================================================================
